---- MODULE Spec2Model ----
(***************************************************************************)
(* RFP slide generator: the Express routes of rfp-slides.js (upload,       *)
(* generate-slides, files, slide-history, generate-pptx) as a state        *)
(* machine over the three Weaviate collections and the local upload        *)
(* directories, with the in-line slide parser (regular expression +        *)
(* JSON.parse) modelled on character sequences.                            *)
(***************************************************************************)
EXTENDS Integers, Sequences, FiniteSets, TLC

(***************************************************************************)
(* JavaScript values.  Every value has the same three fields so that any   *)
(* two values can be compared: t is the type tag, n the number (for        *)
(* "num"), v the parts (characters of a "str", elements of an "arr",       *)
(* members of an "obj", key and value of a "pair").                        *)
(***************************************************************************)
JNum(k) == [t |-> "num", n |-> k, v |-> <<>>]
JStr(cs) == [t |-> "str", n |-> 0, v |-> cs]
JArr(vs) == [t |-> "arr", n |-> 0, v |-> vs]
JObj(ms) == [t |-> "obj", n |-> 0, v |-> ms]
JPair(k, x) == [t |-> "pair", n |-> 0, v |-> <<JStr(k), x>>]
JNull == [t |-> "null", n |-> 0, v |-> <<>>]
JUndefined == [t |-> "undefined", n |-> 0, v |-> <<>>]

\* Same(a, b): a === b for primitives, deep equality for parsed structures.
\* The tag is compared first, so parts of different kinds are never compared.
Same(a, b) == a.t = b.t /\ a.n = b.n /\ a.v = b.v

(***************************************************************************)
(* Texts are sequences of one-character strings.                           *)
(***************************************************************************)
DigitSeq == <<"0", "1", "2", "3", "4", "5", "6", "7", "8", "9">>

Digits == {DigitSeq[i] : i \in 1..Len(DigitSeq)}

DigitVal(c) == (CHOOSE i \in 1..Len(DigitSeq) : DigitSeq[i] = c) - 1

DigitChar(d) == DigitSeq[d + 1]

\* JSON white space (the characters of the model's alphabet that are also \s).
IsWS(c) == c \in {" ", "\n"}

\* The index of the first character at or after i that is not white space,
\* Len(s) + 1 when there is none.
SkipWS(s, i) ==
    CHOOSE j \in i..(Len(s) + 1) :
        /\ \A k \in i..(j - 1) : IsWS(s[k])
        /\ (j = Len(s) + 1 \/ ~IsWS(s[j]))

Fail == [ok |-> FALSE, val |-> JUndefined, pos |-> 0]

Ok(x, p) == [ok |-> TRUE, val |-> x, pos |-> p]

\* The end (exclusive) of the number starting at the digit s[i]: a lone "0",
\* or the maximal run of digits after a non-zero digit.
DigitsEnd(s, i) ==
    IF s[i] = "0" THEN i + 1
    ELSE CHOOSE j \in i..(Len(s) + 1) :
             /\ \A k \in i..(j - 1) : s[k] \in Digits
             /\ (j = Len(s) + 1 \/ s[j] \notin Digits)

RECURSIVE NumVal(_, _, _)
NumVal(s, i, j) == IF j <= i THEN 0 ELSE 10 * NumVal(s, i, j - 1) + DigitVal(s[j - 1])

\* A string literal opening at the quote s[i]: the text runs to the next quote;
\* a raw line break inside a string literal is a syntax error.
ParseString(s, i) ==
    IF \E j \in (i + 1)..Len(s) : s[j] = "\""
    THEN LET j == CHOOSE j \in (i + 1)..Len(s) :
                      s[j] = "\"" /\ \A k \in (i + 1)..(j - 1) : s[k] # "\""
         IN IF \E k \in (i + 1)..(j - 1) : s[k] = "\n"
            THEN Fail
            ELSE Ok(JStr(SubSeq(s, i + 1, j - 1)), j + 1)
    ELSE Fail

\* Object keys that are canonical array indices come first, in numeric order;
\* the other keys keep insertion order; a repeated key keeps its place and
\* takes the last value.
IsIndexKey(k) ==
    /\ Len(k) > 0
    /\ \A i \in 1..Len(k) : k[i] \in Digits
    /\ (k[1] = "0" => Len(k) = 1)

KeyBefore(k, m) ==
    /\ IsIndexKey(k)
    /\ (~IsIndexKey(m) \/ NumVal(k, 1, Len(k) + 1) < NumVal(m, 1, Len(m) + 1))

PutMember(ms, k, x) ==
    IF \E i \in 1..Len(ms) : ms[i].v[1].v = k
    THEN [i \in 1..Len(ms) |-> IF ms[i].v[1].v = k THEN JPair(k, x) ELSE ms[i]]
    ELSE LET before == {i \in 1..Len(ms) : KeyBefore(k, ms[i].v[1].v)}
             at == IF before = {} THEN Len(ms) + 1
                   ELSE CHOOSE i \in before : \A j \in before : i <= j
         IN SubSeq(ms, 1, at - 1) \o <<JPair(k, x)>> \o SubSeq(ms, at, Len(ms))

RECURSIVE ParseValue(_, _), ParseElements(_, _, _), ParseMembers(_, _, _)

\* JSON value starting at or after index i of s.
ParseValue(s, i) ==
    LET j == SkipWS(s, i) IN
    IF j > Len(s) THEN Fail
    ELSE IF s[j] = "[" THEN
        LET k == SkipWS(s, j + 1) IN
        IF k <= Len(s) /\ s[k] = "]" THEN Ok(JArr(<<>>), k + 1)
        ELSE ParseElements(s, j + 1, <<>>)
    ELSE IF s[j] = "{" THEN
        LET k == SkipWS(s, j + 1) IN
        IF k <= Len(s) /\ s[k] = "}" THEN Ok(JObj(<<>>), k + 1)
        ELSE ParseMembers(s, j + 1, <<>>)
    ELSE IF s[j] = "\"" THEN ParseString(s, j)
    ELSE IF s[j] \in Digits THEN
        LET e == DigitsEnd(s, j) IN Ok(JNum(NumVal(s, j, e)), e)
    ELSE IF j + 3 <= Len(s) /\ SubSeq(s, j, j + 3) = <<"n", "u", "l", "l">>
        THEN Ok(JNull, j + 4)
    ELSE Fail

ParseElements(s, i, acc) ==
    LET r == ParseValue(s, i) IN
    IF ~r.ok THEN Fail
    ELSE LET k == SkipWS(s, r.pos) IN
         IF k > Len(s) THEN Fail
         ELSE IF s[k] = "," THEN ParseElements(s, k + 1, Append(acc, r.val))
         ELSE IF s[k] = "]" THEN Ok(JArr(Append(acc, r.val)), k + 1)
         ELSE Fail

ParseMembers(s, i, acc) ==
    LET j == SkipWS(s, i) IN
    IF j > Len(s) \/ s[j] # "\"" THEN Fail
    ELSE LET key == ParseString(s, j) IN
         IF ~key.ok THEN Fail
         ELSE LET c == SkipWS(s, key.pos) IN
              IF c > Len(s) \/ s[c] # ":" THEN Fail
              ELSE LET r == ParseValue(s, c + 1) IN
                   IF ~r.ok THEN Fail
                   ELSE LET k == SkipWS(s, r.pos)
                            ms == PutMember(acc, key.val.v, r.val)
                        IN IF k > Len(s) THEN Fail
                           ELSE IF s[k] = "," THEN ParseMembers(s, k + 1, ms)
                           ELSE IF s[k] = "}" THEN Ok(JObj(ms), k + 1)
                           ELSE Fail

\* JSON.parse(s): one value, white space around it, nothing else; a failure
\* is the SyntaxError it throws.
JSONParse(s) ==
    LET r == ParseValue(s, 1) IN
    IF r.ok /\ SkipWS(s, r.pos) = Len(s) + 1 THEN [ok |-> TRUE, val |-> r.val]
    ELSE [ok |-> FALSE, val |-> JUndefined]

RECURSIVE NumText(_)
NumText(k) == IF k < 10 THEN <<DigitChar(k)>> ELSE NumText(k \div 10) \o <<DigitChar(k % 10)>>

RECURSIVE JSONStringify(_), JoinValues(_), JoinMembers(_)

\* JSON.stringify(x) with no indentation.
JSONStringify(x) ==
    CASE x.t = "num" -> NumText(x.n)
      [] x.t = "str" -> <<"\"">> \o x.v \o <<"\"">>
      [] x.t = "null" -> <<"n", "u", "l", "l">>
      [] x.t = "arr" -> <<"[">> \o JoinValues(x.v) \o <<"]">>
      [] x.t = "obj" -> <<"{">> \o JoinMembers(x.v) \o <<"}">>

JoinValues(vs) ==
    IF vs = <<>> THEN <<>>
    ELSE JSONStringify(Head(vs))
         \o (IF Len(vs) > 1 THEN <<",">> ELSE <<>>) \o JoinValues(Tail(vs))

JoinMembers(ms) ==
    IF ms = <<>> THEN <<>>
    ELSE JSONStringify(Head(ms).v[1]) \o <<":">> \o JSONStringify(Head(ms).v[2])
         \o (IF Len(ms) > 1 THEN <<",">> ELSE <<>>) \o JoinMembers(Tail(ms))

(***************************************************************************)
(* responseText.match(/\[\s*{[\s\S]*}\s*\]/): the leftmost "[" followed by *)
(* white space and "{", then, greedily, everything up to the last "}" that *)
(* is followed by white space and "]".                                     *)
(***************************************************************************)
\* s[i] = "[" opens a match candidate: white space, then "{".
OpensAt(s, i) ==
    /\ s[i] = "["
    /\ LET j == SkipWS(s, i + 1) IN j <= Len(s) /\ s[j] = "{"

\* s[k] = "}" can close a match: white space, then "]".
ClosesAt(s, k) ==
    /\ s[k] = "}"
    /\ LET m == SkipWS(s, k + 1) IN m <= Len(s) /\ s[m] = "]"

\* The match: found, and the matched text jsonMatch[0].  The match starts at
\* the leftmost "[" from which the rest of the expression can match at all,
\* and [\s\S]* then takes as much as leaves a closing "}" \s* "]".
JsonMatch(s) ==
    LET closes == {k \in 1..Len(s) : ClosesAt(s, k)}
        starts == {i \in 1..Len(s) :
                      OpensAt(s, i) /\ \E k \in closes : k > SkipWS(s, i + 1)}
    IN IF starts = {} THEN [found |-> FALSE, text |-> <<>>]
       ELSE LET i == CHOOSE i \in starts : \A j \in starts : i <= j
                k == CHOOSE k \in closes : \A j \in closes : j <= k
            IN [found |-> TRUE, text |-> SubSeq(s, i, SkipWS(s, k + 1))]

\* A parse step without the search for a bracketed region.
ParseWholeText(responseText) == JSONParse(responseText)

\* A parse step that falls back to an empty deck instead of throwing.
ParseSlidesOrEmpty(responseText) ==
    LET jsonMatch == JsonMatch(responseText)
        parsed == IF jsonMatch.found THEN JSONParse(jsonMatch.text)
                  ELSE JSONParse(responseText)
    IN IF parsed.ok THEN parsed ELSE [ok |-> TRUE, val |-> JArr(<<>>)]

\* Lines 313-315: slides = jsonMatch ? JSON.parse(jsonMatch[0])
\*                                   : JSON.parse(responseText).
ParseSlides(responseText) ==
    LET jsonMatch == JsonMatch(responseText) IN
    IF jsonMatch.found THEN JSONParse(jsonMatch.text) ELSE JSONParse(responseText)

(***************************************************************************)
(* File names, documents and requests.                                     *)
(***************************************************************************)
\* A file name is its stem followed by its extension (path.extname).
FileName(stem, ext) == [stem |-> stem, ext |-> ext]

\* The empty string, null or undefined: the falsy names.
NoName == FileName("", "")

Truthy(name) == name # NoName

ExtName(name) == name.ext

ToLowerCase(ext) == CASE ext = ".PDF" -> ".pdf" [] OTHER -> ext

\* originalname.replace('.pdf', ''): the first, case-sensitive occurrence.
ReplacePdf(name) == IF name.ext = ".pdf" THEN FileName(name.stem, "") ELSE name

RfpPdf == FileName("rfp", ".pdf")

GuidePdf == FileName("guide", ".PDF")

NotesTxt == FileName("notes", ".txt")

\* The uploaded file as multer sees it; present = FALSE when the multipart
\* body carries no "pdf" part.
NoFile == [present |-> FALSE, originalname |-> NoName, mimetype |-> ""]

UploadFile(name, mimetype) == [present |-> TRUE, originalname |-> name, mimetype |-> mimetype]

Files ==
    { NoFile,
      UploadFile(RfpPdf, "application/pdf"),
      UploadFile(GuidePdf, "application/octet-stream"),
      UploadFile(NotesTxt, "application/pdf"),
      UploadFile(NotesTxt, "text/plain") }

DocumentTypes == {"rfp", "brand-guide"}

\* Lines 38-46: the multer fileFilter.
FileFilter(file) ==
    file.mimetype = "application/pdf" \/ ToLowerCase(ExtName(file.originalname)) = ".pdf"

\* The text pdf-parse extracts from a file.
TextOf(name) == <<"text of", name.stem>>

\* Lines 157-159: the name <timestamp>_<originalname> of the permanent copy.
SavedFilename(timestamp, name) == [timestamp |-> timestamp, originalname |-> name]

NoSavedFilename == SavedFilename(0, NoName)

\* Lines 179-188: the properties of an RFPDocument.  The id of the request
\* that stored it is kept beside them (0 for a document stored earlier).
RfpDocument(id, name, text, saved) ==
    [content |-> text, filename |-> name, savedFilename |-> saved, filePath |-> saved,
     by |-> id]

\* Lines 164-175: the properties of a BrandGuide.
BrandGuide(id, name, text) ==
    [brandName |-> ReplacePdf(name), content |-> text, filename |-> name,
     colorPalette |-> "To be extracted", typography |-> "Standard",
     voiceTone |-> "Professional", by |-> id]

NoDoc == RfpDocument(0, NoName, <<>>, NoSavedFilename)

\* brandGuidelines when no guide was requested (null, line 251) and when the
\* query found none (undefined, line 265).
NullGuide ==
    [brandName |-> NoName, content |-> <<>>, filename |-> NoName,
     colorPalette |-> "null", typography |-> "", voiceTone |-> "", by |-> 0]

UndefinedGuide == [NullGuide EXCEPT !.colorPalette = "undefined"]

\* Lines 273-277: the brand clause of the system prompt.
BrandClause(brandGuidelines) ==
    IF brandGuidelines \notin {NullGuide, UndefinedGuide}
    THEN [clause |-> "Brand Guidelines:", brand |-> brandGuidelines.brandName,
          voice |-> brandGuidelines.voiceTone, colors |-> brandGuidelines.colorPalette,
          typography |-> brandGuidelines.typography]
    ELSE [clause |-> "Use professional corporate styling.", brand |-> NoName,
          voice |-> "", colors |-> "", typography |-> ""]

\* Lines 269-309: the two chat messages sent to the model.
BuildPrompt(rfpDoc, brandGuidelines, slideCount) ==
    [create |-> slideCount, brand |-> BrandClause(brandGuidelines),
     rfpContent |-> rfpDoc.content, generate |-> slideCount]

NoPrompt == BuildPrompt(NoDoc, NullGuide, JUndefined)

(***************************************************************************)
(* The texts the model may answer with.                                    *)
(***************************************************************************)
SlideNumberKey == <<"\"", "s", "l", "i", "d", "e", "N", "u", "m", "b", "e", "r", "\"", ":">>

SlideText(k) == <<"{">> \o SlideNumberKey \o NumText(k) \o <<"}">>

RawOutputs ==
    { <<"[">> \o SlideText(1) \o <<"]">>,
      <<"[">> \o SlideText(2) \o <<"]">>,
      <<"O", "k", ":", "\n", "[">> \o SlideText(1) \o <<",", " ">> \o SlideText(2)
          \o <<"]", "\n", "D", "o", "n", "e">>,
      <<"S", "o", "r", "r", "y">>,
      <<"[">> \o SlideText(1) \o <<",", "}", "]">>,
      SlideText(1),
      <<"n", "u", "l", "l">>,
      <<"7">>,
      <<"\"", "o", "k", "\"">> }

\* x.length: the element count of an array, the character count of a string,
\* undefined for a number or an object; reading it from null throws.
HasLength(x) == x.t # "null"

LengthOf(x) == IF x.t \in {"arr", "str"} THEN JNum(Len(x.v)) ELSE JUndefined

(***************************************************************************)
(* The deck renderer of POST /generate-pptx, lines 441-689.  A rendered    *)
(* slide keeps the texts the handler adds, in order; positions, colours    *)
(* and shapes are left out.                                                *)
(***************************************************************************)
SlideNumberName == <<"s", "l", "i", "d", "e", "N", "u", "m", "b", "e", "r">>

LayoutName == <<"l", "a", "y", "o", "u", "t">>

TitleName == <<"t", "i", "t", "l", "e">>

ContentName == <<"c", "o", "n", "t", "e", "n", "t">>

NotesName == <<"n", "o", "t", "e", "s">>

BulletsName == <<"b", "u", "l", "l", "e", "t", "s">>

TwoColumnName == <<"t", "w", "o", "C", "o", "l", "u", "m", "n">>

ChartName == <<"c", "h", "a", "r", "t">>

\* The bullet character U+2022 of line 490, as one character.
Bullet == "(bullet)"

\* x.key: the member's value, undefined when x has no such member.
Member(x, key) ==
    IF x.t = "obj" /\ \E i \in 1..Len(x.v) : x.v[i].v[1].v = key
    THEN x.v[CHOOSE i \in 1..Len(x.v) : x.v[i].v[1].v = key].v[2]
    ELSE JUndefined

\* Reading a member of null or undefined throws a TypeError.
MemberThrows(x) == x.t \in {"null", "undefined"}

\* The truthiness of a value.
ToBoolean(x) ==
    CASE x.t \in {"null", "undefined"} -> FALSE
      [] x.t = "num" -> x.n # 0
      [] x.t = "str" -> x.v # <<>>
      [] OTHER -> TRUE

RECURSIVE ToText(_), Join(_, _)

\* String(x), as template literals and Array.prototype.join apply it.
ToText(x) ==
    CASE x.t = "num" -> NumText(x.n)
      [] x.t = "str" -> x.v
      [] x.t = "null" -> <<"n", "u", "l", "l">>
      [] x.t = "undefined" -> <<"u", "n", "d", "e", "f", "i", "n", "e", "d">>
      [] x.t = "arr" -> Join(x.v, <<",">>)
      [] x.t = "obj" -> <<"[", "o", "b", "j", "e", "c", "t", " ",
                          "O", "b", "j", "e", "c", "t", "]">>

\* vs.join(sep): null and undefined elements give the empty string.
Join(vs, sep) ==
    IF vs = <<>> THEN <<>>
    ELSE (IF MemberThrows(Head(vs)) THEN <<>> ELSE ToText(Head(vs)))
         \o (IF Len(vs) > 1 THEN sep ELSE <<>>) \o Join(Tail(vs), sep)

RECURSIVE Indent(_)
Indent(depth) == IF depth = 0 THEN <<>> ELSE <<" ", " ">> \o Indent(depth - 1)

RECURSIVE StringifyIndented(_, _), IndentedValues(_, _), IndentedMembers(_, _)

\* JSON.stringify(x, null, 2) at a nesting depth.
StringifyIndented(x, depth) ==
    CASE x.t = "arr" /\ x.v # <<>> ->
             <<"[", "\n">> \o IndentedValues(x.v, depth + 1)
                 \o <<"\n">> \o Indent(depth) \o <<"]">>
      [] x.t = "obj" /\ x.v # <<>> ->
             <<"{", "\n">> \o IndentedMembers(x.v, depth + 1)
                 \o <<"\n">> \o Indent(depth) \o <<"}">>
      [] OTHER -> JSONStringify(x)

IndentedValues(vs, depth) ==
    IF vs = <<>> THEN <<>>
    ELSE Indent(depth) \o StringifyIndented(Head(vs), depth)
         \o (IF Len(vs) > 1 THEN <<",", "\n">> ELSE <<>>)
         \o IndentedValues(Tail(vs), depth)

IndentedMembers(ms, depth) ==
    IF ms = <<>> THEN <<>>
    ELSE Indent(depth) \o JSONStringify(Head(ms).v[1]) \o <<":", " ">>
         \o StringifyIndented(Head(ms).v[2], depth)
         \o (IF Len(ms) > 1 THEN <<",", "\n">> ELSE <<>>)
         \o IndentedMembers(Tail(ms), depth)

\* Lines 442-453: a new slide carrying its number.
AddSlide(slideData, index) ==
    [number |-> IF ToBoolean(Member(slideData, SlideNumberName))
                THEN ToText(Member(slideData, SlideNumberName))
                ELSE NumText(index + 1),
     layout |-> "default", confidential |-> FALSE, title |-> JUndefined,
     texts |-> <<>>, left |-> <<>>, right |-> <<>>, notes |-> JUndefined]

\* A renderer that gives the left column the smaller half.
LayoutFloorSplit(slide, slideData, index) ==
    LET layout == Member(slideData, LayoutName)
        title == Member(slideData, TitleName)
        content == Member(slideData, ContentName)
        isArray == content.t = "arr"
        midContent == IF isArray THEN Len(content.v) \div 2 ELSE 1
    IN CASE Same(layout, JStr(TitleName)) ->
                [slide EXCEPT !.layout = "title",
                    !.confidential = (index = 0),
                    !.title = title,
                    !.texts = IF ~ToBoolean(content) THEN <<>>
                              ELSE IF isArray
                              THEN <<JStr(Join(content.v, <<" ", Bullet, " ">>))>>
                              ELSE <<content>>]
         [] Same(layout, JStr(BulletsName)) ->
                [slide EXCEPT !.layout = "bullets",
                    !.title = title,
                    !.texts = IF isArray THEN content.v ELSE <<>>]
         [] Same(layout, JStr(TwoColumnName)) ->
                [slide EXCEPT !.layout = "twoColumn",
                    !.title = title,
                    !.left = IF isArray THEN SubSeq(content.v, 1, midContent)
                             ELSE <<content>>,
                    !.right = IF isArray
                              THEN SubSeq(content.v, midContent + 1, Len(content.v))
                              ELSE <<>>]
         [] Same(layout, JStr(ChartName)) ->
                [slide EXCEPT !.layout = "chart",
                    !.title = title,
                    !.texts = IF ToBoolean(content) /\ content.t \in {"arr", "obj"}
                              THEN <<JStr(StringifyIndented(content, 0))>>
                              ELSE <<>>]
         [] OTHER ->
                [slide EXCEPT !.title = title,
                    !.texts = IF isArray
                              THEN <<JStr(Join(content.v, <<"\n", "\n">>))>>
                              ELSE <<content>>]

\* Lines 456-683: the texts a slide gets for its layout.
Layout(slide, slideData, index) ==
    LET layout == Member(slideData, LayoutName)
        title == Member(slideData, TitleName)
        content == Member(slideData, ContentName)
        isArray == content.t = "arr"
        midContent == IF isArray THEN (Len(content.v) + 1) \div 2 ELSE 1
    IN CASE Same(layout, JStr(TitleName)) ->
                [slide EXCEPT !.layout = "title",
                    !.confidential = (index = 0),
                    !.title = title,
                    !.texts = IF ~ToBoolean(content) THEN <<>>
                              ELSE IF isArray
                              THEN <<JStr(Join(content.v, <<" ", Bullet, " ">>))>>
                              ELSE <<content>>]
         [] Same(layout, JStr(BulletsName)) ->
                [slide EXCEPT !.layout = "bullets",
                    !.title = title,
                    !.texts = IF isArray THEN content.v ELSE <<>>]
         [] Same(layout, JStr(TwoColumnName)) ->
                [slide EXCEPT !.layout = "twoColumn",
                    !.title = title,
                    !.left = IF isArray THEN SubSeq(content.v, 1, midContent)
                             ELSE <<content>>,
                    !.right = IF isArray
                              THEN SubSeq(content.v, midContent + 1, Len(content.v))
                              ELSE <<>>]
         [] Same(layout, JStr(ChartName)) ->
                [slide EXCEPT !.layout = "chart",
                    !.title = title,
                    !.texts = IF ToBoolean(content) /\ content.t \in {"arr", "obj"}
                              THEN <<JStr(StringifyIndented(content, 0))>>
                              ELSE <<>>]
         [] OTHER ->
                [slide EXCEPT !.title = title,
                    !.texts = IF isArray
                              THEN <<JStr(Join(content.v, <<"\n", "\n">>))>>
                              ELSE <<content>>]

\* Lines 441-689: one pass of the forEach: the slide, its layout, its notes.
RenderSlide(slideData, index) ==
    LET slide == Layout(AddSlide(slideData, index), slideData, index)
    IN IF ToBoolean(Member(slideData, NotesName))
       THEN [slide EXCEPT !.notes = Member(slideData, NotesName)]
       ELSE slide

\* The forEach throws at the first element that is null or undefined.
RenderThrows(slides) == \E i \in 1..Len(slides.v) : MemberThrows(slides.v[i])

RenderDeck(slides) == [i \in 1..Len(slides.v) |-> RenderSlide(slides.v[i], i - 1)]

\* Line 421: !slides || !Array.isArray(slides) || slides.length === 0
NoSlidesArray(slides) == ~ToBoolean(slides) \/ slides.t # "arr" \/ Len(slides.v) = 0

\* A slide as the model is asked to write it (lines 291-298).
SlideData(number, layout, title, content) ==
    JObj(<<JPair(SlideNumberName, JNum(number)), JPair(LayoutName, JStr(layout)),
           JPair(TitleName, JStr(title)), JPair(ContentName, content)>>)

Item(c) == JStr(<<c>>)

\* The slides bodies POST /generate-pptx is called with.
SlidesBodies ==
    { JUndefined,
      SlideData(1, TitleName, <<"T">>, JArr(<<Item("a")>>)),
      JArr(<<>>),
      JArr(<<JNull>>),
      JArr(<<SlideData(1, TitleName, <<"T">>, JArr(<<Item("a"), Item("b")>>)),
             SlideData(2, TitleName, <<"U">>, Item("c"))>>),
      JArr(<<SlideData(1, BulletsName, <<"T">>, JArr(<<Item("a"), Item("b")>>)),
             SlideData(2, ChartName, <<"U">>, JArr(<<JNum(1), JNum(2)>>))>>),
      JArr(<<SlideData(1, TwoColumnName, <<"T">>,
                       JArr(<<Item("a"), Item("b"), Item("c")>>)),
             JObj(<<JPair(TitleName, Item("V")), JPair(ContentName, Item("d")),
                    JPair(NotesName, Item("n"))>>)>>) }

(***************************************************************************)
(* The state.                                                              *)
(***************************************************************************)
VARIABLES
    rfpDocuments,      \* the RFPDocument collection of the store
    brandGuides,       \* the BrandGuide collection
    slideGenerations,  \* the SlideGeneration collection
    uploads,           \* the staged files in uploads/ (multer's dest)
    userUploads,       \* the files in USER_UPLOADS_DIR
    presentations,     \* the presentation_<time>.pptx files in uploads/
    clock,             \* the time Date reads
    pc,                \* where each request in flight stands
    req,               \* its inputs
    loc,               \* the handler's local variables
    res,               \* the response sent
    ui                 \* the state of the page's component (src/unnamed)

vars == <<rfpDocuments, brandGuides, slideGenerations, uploads, userUploads,
          presentations, clock, pc, req, loc, res, ui>>

store == <<rfpDocuments, brandGuides, slideGenerations>>

disk == <<uploads, userUploads, presentations, clock>>

\* Two requests, numbered in the order they arrive; they may overlap in any
\* way.  The requests that completed before them are represented by what
\* they left in the store and on disk (Init).
Requests == {1, 2}

\* Records each collection may hold from earlier requests.
MaxPrior == 1

\* The latest instant the clock reaches.
MaxClock == 2

DefaultSlideCount == 5

NoRequest ==
    [id |-> 0, op |-> "none", rfpFilename |-> NoName, brandGuideFilename |-> NoName,
     slideCount |-> JUndefined, file |-> NoFile, documentType |-> "undefined",
     slides |-> JUndefined]

NoLocals ==
    [rfpDoc |-> NoDoc, brandGuidelines |-> NullGuide, prompt |-> NoPrompt,
     completion |-> "none", responseText |-> <<>>, slides |-> JUndefined,
     savedFilename |-> NoSavedFilename,
     timestamp |-> 0, deck |-> <<>>, rfpResults |-> <<>>, calls |-> 0]

NoData ==
    [rfpFilename |-> NoName, brandGuideFilename |-> NoName, slideCount |-> JUndefined,
     slides |-> JUndefined, filename |-> NoName, documentType |-> "", pages |-> 0,
     rfpDocuments |-> <<>>, brandGuides |-> <<>>, generations |-> <<>>,
     attachment |-> [of |-> NoName, ext |-> ""], deck |-> <<>>]

NoResponse ==
    [status |-> 0, kind |-> "none", success |-> "absent", error |-> "", details |-> "",
     data |-> NoData]

\* res.status(status).json({success, error, details, data})
Json(status, success, error, details, data) ==
    [status |-> status, kind |-> "json", success |-> success, error |-> error,
     details |-> details, data |-> data]

\* Express's default error handler (no error middleware is registered): the
\* error's status or 500, with an HTML body.
DefaultErrorHandler(message) ==
    [status |-> 500, kind |-> "html", success |-> "absent", error |-> message,
     details |-> "", data |-> NoData]

\* The collaborators' failures, as the error.message the handlers report.
StoreError == "weaviate request failed"

ModelError == "openai request failed"

ExtractError == "pdf-parse failed"

CopyError == "copyFileSync failed"

\* Request r ends with response x.  The server's steps leave the page's
\* component as it is.
Respond(r, x) ==
    /\ pc' = [pc EXCEPT ![r] = "done"]
    /\ res' = [res EXCEPT ![r] = x]
    /\ UNCHANGED ui

\* The handler of request r reaches its next await.
Await(r, at) ==
    /\ pc' = [pc EXCEPT ![r] = at]
    /\ UNCHANGED <<res, ui>>

\* Date.now() / new Date(): the instants a reading of the clock may return.
\* Instants are numbered as they are read: the first reading returns instant
\* 1, a later one the instant of the reading before it or the next one.
DateNow == IF clock = 0 THEN {1} ELSE {t \in {clock, clock + 1} : t <= MaxClock}

\* Request r has not arrived yet and is the next to arrive.
Free(r) == pc[r] = "idle" /\ \A q \in Requests : pc[q] = "idle" => r <= q

\* A query whose where-filter is lost: every object of the collection.
MatchingAny(collection, name) == 1..Len(collection)

\* An Equal filter on filename: the objects of a collection that match.
Matching(collection, name) == {i \in 1..Len(collection) : collection[i].filename = name}

(***************************************************************************)
(* POST /generate-slides, lines 215-358.                                   *)
(***************************************************************************)
\* Lines 350-357: the catch block of the route.
GenerateCatch(message) ==
    Json(500, "false", "Failed to generate slides", message, NoData)

\* Lines 301-309: the prompt is built and the completion requested; calls
\* counts the requests this handler has made of the model.
RequestCompletion(r, rfpDoc, brandGuidelines) ==
    /\ loc' = [loc EXCEPT ![r].rfpDoc = rfpDoc,
                          ![r].brandGuidelines = brandGuidelines,
                          ![r].prompt = BuildPrompt(rfpDoc, brandGuidelines,
                                                    req[r].slideCount),
                          ![r].calls = @ + 1]
    /\ Await(r, "complete")

\* A handler that calls the model as soon as the request arrives, without
\* the RFP document.
GenerateSlidesEager(r) ==
    /\ Free(r)
    /\ \E rfpFilename \in {NoName, RfpPdf},
          brandGuideFilename \in {NoName, GuidePdf},
          slideCount \in {JUndefined, JNum(2)} :
          /\ req' = [req EXCEPT ![r] =
                 [NoRequest EXCEPT !.id = r, !.op = "generate",
                     !.rfpFilename = rfpFilename,
                     !.brandGuideFilename = brandGuideFilename,
                     !.slideCount = IF Same(slideCount, JUndefined)
                                    THEN JNum(DefaultSlideCount) ELSE slideCount]]
          /\ RequestCompletion(r, NoDoc, NullGuide)
    /\ UNCHANGED <<store, disk>>

\* Lines 215-239: the request arrives; a missing rfpFilename ends it with 400,
\* otherwise the RFPDocument query is sent.
GenerateSlides(r) ==
    /\ Free(r)
    /\ \E rfpFilename \in {NoName, RfpPdf},
          brandGuideFilename \in {NoName, GuidePdf},
          slideCount \in {JUndefined, JNum(2)} :
          /\ req' = [req EXCEPT ![r] =
                 [NoRequest EXCEPT !.id = r, !.op = "generate",
                     !.rfpFilename = rfpFilename,
                     !.brandGuideFilename = brandGuideFilename,
                     !.slideCount = IF Same(slideCount, JUndefined)
                                    THEN JNum(DefaultSlideCount) ELSE slideCount]]
          /\ IF ~Truthy(rfpFilename)
             THEN Respond(r, Json(400, "false", "RFP filename is required", "", NoData))
             ELSE Await(r, "fetchRfp")
    /\ UNCHANGED <<store, disk, loc>>

\* Lines 229-266: the RFPDocument query returns (or throws); no document is
\* 404; otherwise the brand guide is queried when one was named.
RfpFetched(r) ==
    /\ pc[r] = "fetchRfp"
    /\ \/ /\ Respond(r, GenerateCatch(StoreError))
          /\ UNCHANGED loc
       \/ /\ Matching(rfpDocuments, req[r].rfpFilename) = {}
          /\ Respond(r, Json(404, "false",
                 "RFP document not found. Please upload it first.", "", NoData))
          /\ UNCHANGED loc
       \/ \E i \in Matching(rfpDocuments, req[r].rfpFilename) :
             IF Truthy(req[r].brandGuideFilename)
             THEN /\ loc' = [loc EXCEPT ![r].rfpDoc = rfpDocuments[i]]
                  /\ Await(r, "fetchBrand")
             ELSE RequestCompletion(r, rfpDocuments[i], NullGuide)
    /\ UNCHANGED <<store, disk, req>>

\* A strict handler: a brand guide that is not found ends the request with 404.
BrandFetchedStrict(r) ==
    /\ pc[r] = "fetchBrand"
    /\ \/ /\ Respond(r, GenerateCatch(StoreError))
          /\ UNCHANGED loc
       \/ /\ Matching(brandGuides, req[r].brandGuideFilename) = {}
          /\ Respond(r, Json(404, "false", "Brand guide not found", "", NoData))
          /\ UNCHANGED loc
       \/ \E i \in Matching(brandGuides, req[r].brandGuideFilename) :
             RequestCompletion(r, loc[r].rfpDoc, brandGuides[i])
    /\ UNCHANGED <<store, disk, req>>

\* Lines 253-265: the BrandGuide query returns (or throws); no match leaves
\* brandGuidelines undefined.
BrandFetched(r) ==
    /\ pc[r] = "fetchBrand"
    /\ \/ /\ Respond(r, GenerateCatch(StoreError))
          /\ UNCHANGED loc
       \/ /\ Matching(brandGuides, req[r].brandGuideFilename) = {}
          /\ RequestCompletion(r, loc[r].rfpDoc, UndefinedGuide)
       \/ \E i \in Matching(brandGuides, req[r].brandGuideFilename) :
             RequestCompletion(r, loc[r].rfpDoc, brandGuides[i])
    /\ UNCHANGED <<store, disk, req>>

\* Lines 325-335: the properties of the SlideGeneration record.  The id of
\* the request that wrote it is kept beside them to tell the records apart.
GenerationRecord(id, rfpFilename, brandGuideFilename, slides) ==
    [rfpFilename |-> rfpFilename,
     brandGuideFilename |-> IF Truthy(brandGuideFilename) THEN brandGuideFilename
                            ELSE FileName("None", ""),
     slideCount |-> LengthOf(slides),
     slides |-> JSONStringify(slides),
     status |-> "completed",
     by |-> id]

\* A success response that names the guide found in the store, and "Default"
\* when the lookup found none.
GenerationResponseNamesFound(r) ==
    Json(200, "true", "", "",
         [NoData EXCEPT !.rfpFilename = req[r].rfpFilename,
             !.brandGuideFilename = IF Truthy(loc[r].brandGuidelines.filename)
                                    THEN loc[r].brandGuidelines.filename
                                    ELSE FileName("Default", ""),
             !.slideCount = LengthOf(loc[r].slides),
             !.slides = loc[r].slides])

\* A success response that echoes the requested slideCount.
GenerationResponseEchoesCount(r) ==
    Json(200, "true", "", "",
         [NoData EXCEPT !.rfpFilename = req[r].rfpFilename,
             !.brandGuideFilename = IF Truthy(req[r].brandGuideFilename)
                                    THEN req[r].brandGuideFilename
                                    ELSE FileName("Default", ""),
             !.slideCount = req[r].slideCount,
             !.slides = loc[r].slides])

\* Lines 339-348: the success response.
GenerationResponse(r) ==
    Json(200, "true", "", "",
         [NoData EXCEPT !.rfpFilename = req[r].rfpFilename,
             !.brandGuideFilename = IF Truthy(req[r].brandGuideFilename)
                                    THEN req[r].brandGuideFilename
                                    ELSE FileName("Default", ""),
             !.slideCount = LengthOf(loc[r].slides),
             !.slides = loc[r].slides])

\* What completion.choices[0].message.content may be: a text, or null.
Completions ==
    {[content |-> "text", text |-> t] : t \in RawOutputs}
        \cup {[content |-> "null", text |-> <<>>]}

\* The slides of an array numbered anew, from 1.
Renumbered(x) ==
    IF x.t # "arr" THEN x
    ELSE JArr([i \in 1..Len(x.v) |->
                  IF x.v[i].t = "obj"
                  THEN JObj(<<JPair(SlideNumberName, JNum(i))>>)
                  ELSE x.v[i]])

\* A parse step that renumbers the slides it parsed.
ParseStepRenumbering(completion) ==
    IF completion.content = "text"
    THEN [ok |-> ParseSlides(completion.text).ok,
          val |-> Renumbered(ParseSlides(completion.text).val)]
    ELSE [ok |-> FALSE, val |-> JUndefined]

\* Lines 311-322: the parse step; ok = FALSE is the error the inner catch
\* takes.  A null content makes responseText.match throw.
ParseStep(completion) ==
    IF completion.content = "text" THEN ParseSlides(completion.text)
    ELSE [ok |-> FALSE, val |-> JUndefined]

\* A handler that asks the model again after a failed call.
CompletedRetrying(r) ==
    /\ pc[r] = "complete"
    /\ \/ /\ loc[r].calls < 2
          /\ loc' = [loc EXCEPT ![r].calls = @ + 1]
          /\ Await(r, "complete")
       \/ /\ loc[r].calls >= 2
          /\ Respond(r, GenerateCatch(ModelError))
          /\ UNCHANGED loc
       \/ \E completion \in Completions :
             LET parsed == ParseStep(completion) IN
             /\ loc' = [loc EXCEPT ![r].completion = completion.content,
                                   ![r].responseText = completion.text,
                                   ![r].slides = IF parsed.ok THEN parsed.val
                                                 ELSE JArr(<<>>)]
             /\ IF ~parsed.ok
                THEN Respond(r, Json(500, "false",
                         "Failed to generate valid slide structure", "", NoData))
                ELSE IF ~HasLength(parsed.val)
                THEN Respond(r, GenerateCatch("Cannot read properties of null"))
                ELSE Await(r, "record")
    /\ UNCHANGED <<store, disk, req>>

\* Lines 301-335: the completion returns (or throws), the text is parsed and
\* the record is sent to the store.  slides is [] until the parse assigns it;
\* reading slides.length of null throws into the route's catch block.
Completed(r) ==
    /\ pc[r] = "complete"
    /\ \/ /\ Respond(r, GenerateCatch(ModelError))
          /\ UNCHANGED loc
       \/ \E completion \in Completions :
             LET parsed == ParseStep(completion) IN
             /\ loc' = [loc EXCEPT ![r].completion = completion.content,
                                   ![r].responseText = completion.text,
                                   ![r].slides = IF parsed.ok THEN parsed.val
                                                 ELSE JArr(<<>>)]
             /\ IF ~parsed.ok
                THEN Respond(r, Json(500, "false",
                         "Failed to generate valid slide structure", "", NoData))
                ELSE IF ~HasLength(parsed.val)
                THEN Respond(r, GenerateCatch("Cannot read properties of null"))
                ELSE Await(r, "record")
    /\ UNCHANGED <<store, disk, req>>

\* A record that keeps the first slide only.
OwnRecordFirstSlide(r) ==
    GenerationRecord(req[r].id, req[r].rfpFilename, req[r].brandGuideFilename,
                     IF loc[r].slides.t = "arr" /\ loc[r].slides.v # <<>>
                     THEN JArr(<<loc[r].slides.v[1]>>)
                     ELSE loc[r].slides)

\* The record a request writes.
OwnRecord(r) ==
    GenerationRecord(req[r].id, req[r].rfpFilename, req[r].brandGuideFilename,
                     loc[r].slides)

\* A handler that retries the write: the record is stored twice.
RecordedTwice(r) ==
    /\ pc[r] = "record"
    /\ \/ /\ Respond(r, GenerateCatch(StoreError))
          /\ UNCHANGED slideGenerations
       \/ /\ slideGenerations' = slideGenerations \o <<OwnRecord(r), OwnRecord(r)>>
          /\ Respond(r, GenerationResponse(r))
    /\ UNCHANGED <<rfpDocuments, brandGuides, disk, req, loc>>

\* A handler that does not await the write: the slides are returned whether
\* or not the record was stored.
RecordedUnawaited(r) ==
    /\ pc[r] = "record"
    /\ \/ UNCHANGED slideGenerations
       \/ slideGenerations' = Append(slideGenerations, OwnRecord(r))
    /\ Respond(r, GenerationResponse(r))
    /\ UNCHANGED <<rfpDocuments, brandGuides, disk, req, loc>>

\* A handler that keeps one record per rfpFilename: a second generation for
\* the same document is answered without a record of its own.
RecordedDeduped(r) ==
    /\ pc[r] = "record"
    /\ \/ /\ Respond(r, GenerateCatch(StoreError))
          /\ UNCHANGED slideGenerations
       \/ /\ slideGenerations' =
                 IF \E i \in 1..Len(slideGenerations) :
                        slideGenerations[i].rfpFilename = req[r].rfpFilename
                 THEN slideGenerations
                 ELSE Append(slideGenerations, OwnRecord(r))
          /\ Respond(r, GenerationResponse(r))
    /\ UNCHANGED <<rfpDocuments, brandGuides, disk, req, loc>>

\* Lines 325-348: the store answers the write (or throws); the success
\* response follows the write.
Recorded(r) ==
    /\ pc[r] = "record"
    /\ \/ /\ Respond(r, GenerateCatch(StoreError))
          /\ UNCHANGED slideGenerations
       \/ /\ slideGenerations' = Append(slideGenerations, OwnRecord(r))
          /\ Respond(r, GenerationResponse(r))
    /\ UNCHANGED <<rfpDocuments, brandGuides, disk, req, loc>>

(***************************************************************************)
(* POST /upload, lines 145-212.                                            *)
(***************************************************************************)
\* A catch block that reports the error and leaves the staged file behind.
UploadCatchKeepsFile(r, message) ==
    /\ UNCHANGED uploads
    /\ Respond(r, Json(400, "false", message, "", NoData))

\* Lines 203-211: the catch block: the staged file is removed if it is still
\* there, and the error is reported with status 400.
UploadCatch(r, message) ==
    /\ uploads' = uploads \ {req[r].id}
    /\ Respond(r, Json(400, "false", message, "", NoData))

\* Lines 38-50, 145-155: the request arrives.  multer rejects a file the
\* filter refuses, and its error goes to the default error handler; an
\* accepted file is staged in uploads/ and the text extraction starts.
Upload(r) ==
    /\ Free(r)
    /\ \E file \in Files, documentType \in {"undefined"} \cup DocumentTypes :
          /\ req' = [req EXCEPT ![r] =
                 [NoRequest EXCEPT !.id = r, !.op = "upload", !.file = file,
                     !.documentType = IF documentType = "undefined" THEN "rfp"
                                      ELSE documentType]]
          /\ IF ~file.present
             THEN /\ Respond(r, Json(400, "false", "No file uploaded", "", NoData))
                  /\ UNCHANGED uploads
             ELSE IF ~FileFilter(file)
             THEN /\ Respond(r, DefaultErrorHandler("Only PDF files are allowed!"))
                  /\ UNCHANGED uploads
             ELSE /\ uploads' = uploads \cup {r}
                  /\ Await(r, "extract")
    /\ UNCHANGED <<store, userUploads, presentations, clock, loc>>

\* A handler that stores the document before its text is extracted, so that
\* a failed extraction leaves a record without content behind.
ExtractedAfterStoring(r) ==
    /\ pc[r] = "extract"
    /\ UploadCatch(r, ExtractError)
    /\ rfpDocuments' = Append(rfpDocuments,
           RfpDocument(req[r].id, req[r].file.originalname, <<>>, NoSavedFilename))
    /\ UNCHANGED <<brandGuides, slideGenerations, userUploads, presentations, clock,
                   req, loc>>

\* Lines 155-161: the extraction returns (or throws); the staged file is
\* copied under its timestamped name and removed, and the record is sent to
\* the store.
Extracted(r) ==
    /\ pc[r] = "extract"
    /\ \/ /\ UploadCatch(r, ExtractError)
          /\ UNCHANGED <<userUploads, clock, loc>>
       \/ \E now \in DateNow :
             LET savedFilename == SavedFilename(now, req[r].file.originalname)
             IN /\ clock' = now
                /\ \/ /\ UploadCatch(r, CopyError)
                      /\ UNCHANGED <<userUploads, loc>>
                   \/ /\ userUploads' = userUploads \cup {savedFilename}
                      /\ uploads' = uploads \ {req[r].id}
                      /\ loc' = [loc EXCEPT ![r].savedFilename = savedFilename,
                                            ![r].timestamp = now]
                      /\ Await(r, "store")
    /\ UNCHANGED <<store, presentations, req>>

\* A store write that replaces the documents of the same filename.
StoredReplacing(r) ==
    /\ pc[r] = "store"
    /\ LET name == req[r].file.originalname IN
       /\ rfpDocuments' =
              Append(SelectSeq(rfpDocuments, LAMBDA d : d.filename # name),
                     RfpDocument(req[r].id, name, TextOf(name), loc[r].savedFilename))
       /\ Respond(r, Json(200, "true", "", "",
              [NoData EXCEPT !.filename = name,
                             !.documentType = req[r].documentType,
                             !.pages = 1]))
    /\ UNCHANGED <<brandGuides, slideGenerations, disk, req, loc>>

\* A store write that files every upload as an RFPDocument, whatever its
\* documentType.
StoredAsRfp(r) ==
    /\ pc[r] = "store"
    /\ LET name == req[r].file.originalname IN
       \/ /\ UploadCatch(r, StoreError)
          /\ UNCHANGED <<rfpDocuments, brandGuides>>
       \/ /\ rfpDocuments' = Append(rfpDocuments,
                 RfpDocument(req[r].id, name, TextOf(name), loc[r].savedFilename))
          /\ UNCHANGED brandGuides
          /\ Respond(r, Json(200, "true", "", "",
                 [NoData EXCEPT !.filename = name,
                                !.documentType = req[r].documentType,
                                !.pages = 1]))
          /\ UNCHANGED uploads
    /\ UNCHANGED <<slideGenerations, userUploads, presentations, clock, req, loc>>

\* Lines 163-201: the store answers the write (or throws, which the catch
\* block reports); the success response follows the write.
Stored(r) ==
    /\ pc[r] = "store"
    /\ LET name == req[r].file.originalname IN
       \/ /\ UploadCatch(r, StoreError)
          /\ UNCHANGED <<rfpDocuments, brandGuides>>
       \/ /\ IF req[r].documentType = "brand-guide"
             THEN /\ brandGuides' = Append(brandGuides, BrandGuide(req[r].id, name, TextOf(name)))
                  /\ UNCHANGED rfpDocuments
             ELSE /\ rfpDocuments' = Append(rfpDocuments,
                         RfpDocument(req[r].id, name, TextOf(name),
                                     loc[r].savedFilename))
                  /\ UNCHANGED brandGuides
          /\ Respond(r, Json(200, "true", "", "",
                 [NoData EXCEPT !.filename = name,
                                !.documentType = req[r].documentType,
                                !.pages = 1]))
          /\ UNCHANGED uploads
    /\ UNCHANGED <<slideGenerations, userUploads, presentations, clock, req, loc>>

(***************************************************************************)
(* POST /generate-pptx, lines 417-713.                                     *)
(***************************************************************************)
WriteError == "writeFile failed"

\* Lines 706-712: the catch block; its body carries no success member.
PptxCatch(message) == Json(500, "absent", "Failed to generate PowerPoint", message, NoData)

\* Line 696: the name the deck is offered under.
DownloadName(rfpFilename) ==
    [of |-> IF Truthy(rfpFilename) THEN rfpFilename ELSE FileName("presentation", ""),
     ext |-> ".pptx"]

\* res.download streaming the file: status 200, the deck as the body.
Download(name, deck) ==
    [status |-> 200, kind |-> "file", success |-> "absent", error |-> "", details |-> "",
     data |-> [NoData EXCEPT !.attachment = name, !.deck = deck]]

\* Lines 417-693: the request arrives; without a non-empty slides array it
\* ends with 400; otherwise the deck is rendered (a null slide throws into
\* the catch block), the output path is named after the clock and the write
\* of the file starts.
GeneratePptx(r) ==
    /\ Free(r)
    /\ \E slides \in SlidesBodies, rfpFilename \in {NoName, RfpPdf} :
          /\ req' = [req EXCEPT ![r] =
                 [NoRequest EXCEPT !.id = r, !.op = "pptx", !.slides = slides,
                                   !.rfpFilename = rfpFilename]]
          /\ IF NoSlidesArray(slides)
             THEN /\ Respond(r, Json(400, "absent", "Slides array is required", "", NoData))
                  /\ UNCHANGED <<loc, clock>>
             ELSE IF RenderThrows(slides)
             THEN /\ Respond(r, PptxCatch("Cannot read properties of null"))
                  /\ UNCHANGED <<loc, clock>>
             ELSE \E now \in DateNow :
                     /\ clock' = now
                     /\ loc' = [loc EXCEPT ![r].deck = RenderDeck(slides),
                                           ![r].timestamp = now]
                     /\ Await(r, "write")
    /\ UNCHANGED <<store, uploads, userUploads, presentations>>

\* Lines 693-696: writeFile returns (or throws); res.download is called.
PptxWritten(r) ==
    /\ pc[r] = "write"
    /\ \/ /\ Respond(r, PptxCatch(WriteError))
          /\ UNCHANGED presentations
       \/ /\ presentations' = presentations \cup {loc[r].timestamp}
          /\ Await(r, "open")
    /\ UNCHANGED <<store, uploads, userUploads, clock, req, loc>>

\* Lines 696-704: res.download opens the file.  When it is gone (another
\* request wrote the same path and has removed it) the callback only logs
\* the error and the failed unlink: no response is ever sent.
PptxOpened(r) ==
    /\ pc[r] = "open"
    /\ IF loc[r].timestamp \in presentations
       THEN Await(r, "send")
       ELSE Await(r, "hung")
    /\ UNCHANGED <<store, disk, req, loc>>

\* Lines 696-704: the file has been sent; the callback removes it.
PptxSent(r) ==
    /\ pc[r] = "send"
    /\ presentations' = presentations \ {loc[r].timestamp}
    /\ Respond(r, Download(DownloadName(req[r].rfpFilename), loc[r].deck))
    /\ UNCHANGED <<store, uploads, userUploads, clock, req, loc>>

(***************************************************************************)
(* GET /files, GET /slide-history and GET /check.                          *)
(***************************************************************************)
FilesLimit == 100

HistoryLimit == 50

\* withLimit(n): the first n objects.
WithLimit(collection, n) ==
    SubSeq(collection, 1, IF Len(collection) < n THEN Len(collection) ELSE n)

\* withFields: the listed properties of each object.
ListedFiles(collection) ==
    [i \in 1..Len(collection) |-> [filename |-> collection[i].filename]]

ListedGenerations(collection) ==
    [i \in 1..Len(collection) |->
        [rfpFilename |-> collection[i].rfpFilename,
         brandGuideFilename |-> collection[i].brandGuideFilename,
         slideCount |-> collection[i].slideCount,
         status |-> collection[i].status]]

\* Lines 384-389 and 408-413: the catch blocks of the two listings.
ListCatch(message) == Json(500, "false", message, "", NoData)

\* Lines 361-368: the request arrives and the RFPDocument listing is sent.
ListFiles(r) ==
    /\ Free(r)
    /\ req' = [req EXCEPT ![r] = [NoRequest EXCEPT !.id = r, !.op = "files"]]
    /\ Await(r, "listRfp")
    /\ UNCHANGED <<store, disk, loc>>

\* Lines 363-375: the RFPDocument listing returns (or throws); the
\* BrandGuide listing is sent.
RfpListed(r) ==
    /\ pc[r] = "listRfp"
    /\ \/ /\ Respond(r, ListCatch(StoreError))
          /\ UNCHANGED loc
       \/ /\ loc' = [loc EXCEPT ![r].rfpResults =
                        ListedFiles(WithLimit(rfpDocuments, FilesLimit))]
          /\ Await(r, "listBrand")
    /\ UNCHANGED <<store, disk, req>>

\* Lines 370-383: the BrandGuide listing returns (or throws); the response.
BrandListed(r) ==
    /\ pc[r] = "listBrand"
    /\ \/ Respond(r, ListCatch(StoreError))
       \/ Respond(r, Json(200, "true", "", "",
              [NoData EXCEPT !.rfpDocuments = loc[r].rfpResults,
                             !.brandGuides =
                                 ListedFiles(WithLimit(brandGuides, FilesLimit))]))
    /\ UNCHANGED <<store, disk, req, loc>>

\* Lines 393-400: the request arrives and the SlideGeneration listing is sent.
SlideHistory(r) ==
    /\ Free(r)
    /\ req' = [req EXCEPT ![r] = [NoRequest EXCEPT !.id = r, !.op = "history"]]
    /\ Await(r, "history")
    /\ UNCHANGED <<store, disk, loc>>

\* Lines 395-413: the listing returns (or throws); the response.
HistoryListed(r) ==
    /\ pc[r] = "history"
    /\ \/ Respond(r, ListCatch(StoreError))
       \/ Respond(r, Json(200, "true", "", "",
              [NoData EXCEPT !.generations =
                  ListedGenerations(WithLimit(slideGenerations, HistoryLimit))]))
    /\ UNCHANGED <<store, disk, req, loc>>

\* Lines 136-142: the health check answers at once.
Check(r) ==
    /\ Free(r)
    /\ req' = [req EXCEPT ![r] = [NoRequest EXCEPT !.id = r, !.op = "check"]]
    /\ Respond(r, Json(200, "true", "", "", NoData))
    /\ UNCHANGED <<store, disk, loc>>

(***************************************************************************)
(* The page's component, src/unnamed/part_000 (RFPSlideGenerator).  Its    *)
(* useState values are the fields of ui.  A call of fetch the component is *)
(* waiting for is counted in ui.awaiting, by the handler that made it and  *)
(* the await it stands at.                                                 *)
(***************************************************************************)
\* The handlers that call the server: checkApiHealth, loadFiles,
\* handleFileUpload and handleGenerateSlides.
Calls == {"check", "files", "upload", "generate"}

\* The awaits of a handler: await fetch(...), and await response.json() of a
\* response with response.ok true or false.
Awaits == {"fetch", "json", "jsonNotOk"}

\* The calls of loadFiles the component waits for at one time.
MaxFetches == 2

\* generatedSlides === null.
NullData == [rfpFilename |-> NoName, slideCount |-> 0]

\* result.data of a successful generation for the selected document.
ResultData(rfpFilename) == {[rfpFilename |-> rfpFilename, slideCount |-> n] : n \in {1, 2}}

\* data.data.rfpDocuments of GET /files, as the filenames the select lists.
FileLists == {<<>>, <<RfpPdf>>}

NothingAwaited == [c \in Calls \X Awaits |-> 0]

\* Lines 8-24: the useState defaults, and the effect run on mount, which
\* calls checkApiHealth and loadFiles.  generation records how the last
\* generation started ended.
Mounted ==
    [rfpFiles |-> <<>>, selectedRfp |-> NoName, generatedSlides |-> NullData,
     isLoading |-> FALSE, apiStatus |-> "checking", uploadType |-> "rfp",
     picker |-> FALSE, generation |-> "none",
     awaiting |-> [NothingAwaited EXCEPT ![<<"check", "fetch">>] = 1,
                                         ![<<"files", "fetch">>] = 1]]

\* The handler's call stands at an await.
At(call, await) == ui.awaiting[<<call, await>>] > 0

\* The calls of a handler under way, whatever await they stand at.
InFlight(call) ==
    ui.awaiting[<<call, "fetch">>] + ui.awaiting[<<call, "json">>]
        + ui.awaiting[<<call, "jsonNotOk">>]

\* awaiting after a call went from one await to the next, started, or ended.
Moved(awaiting, call, from, to) ==
    [awaiting EXCEPT ![<<call, from>>] = @ - 1, ![<<call, to>>] = @ + 1]

Started(awaiting, call) == [awaiting EXCEPT ![<<call, "fetch">>] = @ + 1]

Ended(awaiting, call, await) == [awaiting EXCEPT ![<<call, await>>] = @ - 1]

\* The page takes the user's clicks: the file dialog, which the browser
\* shows over the page until a file is chosen or the dialog is dismissed, is
\* not open.
Interactive == ~ui.picker

\* The server's state is not the component's to change.
Server == <<store, disk, pc, req, loc, res>>

\* Lines 26-37: checkApiHealth's fetch resolves (response.ok or not) or
\* throws.
CheckAnswered ==
    /\ At("check", "fetch")
    /\ \E apiStatus \in {"connected", "error"} :
          ui' = [ui EXCEPT !.apiStatus = apiStatus,
                           !.awaiting = Ended(@, "check", "fetch")]
    /\ UNCHANGED Server

\* Lines 39-42: loadFiles' fetch resolves with response.ok, or resolves
\* without it or throws, and then nothing is set.
FilesAnswered ==
    /\ At("files", "fetch")
    /\ \/ ui' = [ui EXCEPT !.awaiting = Moved(@, "files", "fetch", "json")]
       \/ ui' = [ui EXCEPT !.awaiting = Ended(@, "files", "fetch")]
    /\ UNCHANGED Server

\* Lines 43-49: response.json() resolves and the lists are set, or throws.
FilesParsed ==
    /\ At("files", "json")
    /\ \/ \E files \in FileLists :
             ui' = [ui EXCEPT !.rfpFiles = files,
                              !.awaiting = Ended(@, "files", "json")]
       \/ ui' = [ui EXCEPT !.awaiting = Ended(@, "files", "json")]
    /\ UNCHANGED Server

\* Lines 195-211: a radio button sets uploadType.
SetUploadType ==
    /\ Interactive
    /\ \E value \in DocumentTypes :
          /\ value # ui.uploadType
          /\ ui' = [ui EXCEPT !.uploadType = value]
    /\ UNCHANGED Server

\* Lines 245-256: the select sets selectedRfp to one of its options.
SetSelectedRfp ==
    /\ Interactive
    /\ \E value \in {NoName} \cup {ui.rfpFiles[i] : i \in 1..Len(ui.rfpFiles)} :
          /\ value # ui.selectedRfp
          /\ ui' = [ui EXCEPT !.selectedRfp = value]
    /\ UNCHANGED Server

\* An upload button that stays enabled while a request is under way.
ChooseFileWhileLoading ==
    /\ Interactive
    /\ ui.apiStatus = "connected"
    /\ ui' = [ui EXCEPT !.picker = TRUE]
    /\ UNCHANGED Server

\* Lines 225-228: the upload button, disabled while isLoading or without a
\* connection, clicks the hidden file input: the file dialog opens.
ChooseFile ==
    /\ Interactive
    /\ ~ui.isLoading /\ ui.apiStatus = "connected"
    /\ ui' = [ui EXCEPT !.picker = TRUE]
    /\ UNCHANGED Server

\* Lines 52-66: the file input's change event.  Without a file (the dialog
\* was dismissed) and for a file that is no PDF the handler returns; for a
\* PDF it sets isLoading and posts the file.
HandleFileUpload ==
    /\ ui.picker
    /\ \E file \in {"", "application/pdf", "text/plain"} :
          IF file # "application/pdf"
          THEN ui' = [ui EXCEPT !.picker = FALSE]
          ELSE ui' = [ui EXCEPT !.picker = FALSE,
                                !.isLoading = TRUE,
                                !.awaiting = Started(@, "upload")]
    /\ UNCHANGED Server

\* Lines 66-71, 81-88: the upload's fetch resolves, or throws into the catch
\* block; the finally block resets isLoading.
UploadAnswered ==
    /\ At("upload", "fetch")
    /\ \/ \E await \in {"json", "jsonNotOk"} :
             ui' = [ui EXCEPT !.awaiting = Moved(@, "upload", "fetch", await)]
       \/ ui' = [ui EXCEPT !.isLoading = FALSE,
                           !.awaiting = Ended(@, "upload", "fetch")]
    /\ UNCHANGED Server

\* Lines 73-88: response.json() resolves (or throws); after a response with
\* response.ok the handler calls loadFiles, without awaiting it; the finally
\* block resets isLoading.
UploadParsed ==
    /\ \/ /\ At("upload", "json")
          /\ InFlight("files") < MaxFetches
          /\ ui' = [ui EXCEPT !.isLoading = FALSE,
                              !.awaiting = Started(Ended(@, "upload", "json"), "files")]
       \/ \E await \in {"json", "jsonNotOk"} :
             /\ At("upload", await)
             /\ ui' = [ui EXCEPT !.isLoading = FALSE,
                                 !.awaiting = Ended(@, "upload", await)]
    /\ UNCHANGED Server

\* Lines 91-110, 295-298: the generate button, disabled while isLoading,
\* without a selected RFP or without a connection, is clicked: the handler
\* sets isLoading, clears generatedSlides and posts the request.
HandleGenerateSlides ==
    /\ Interactive
    /\ ~ui.isLoading /\ Truthy(ui.selectedRfp) /\ ui.apiStatus = "connected"
    /\ ui' = [ui EXCEPT !.isLoading = TRUE,
                        !.generatedSlides = NullData,
                        !.generation = "running",
                        !.awaiting = Started(@, "generate")]
    /\ UNCHANGED Server

\* Lines 101-111, 119-124: the generation's fetch resolves, or throws into
\* the catch block; the finally block resets isLoading.
GenerateAnswered ==
    /\ At("generate", "fetch")
    /\ \/ \E await \in {"json", "jsonNotOk"} :
             ui' = [ui EXCEPT !.awaiting = Moved(@, "generate", "fetch", await)]
       \/ ui' = [ui EXCEPT !.isLoading = FALSE,
                           !.generation = "failed",
                           !.awaiting = Ended(@, "generate", "fetch")]
    /\ UNCHANGED Server

\* Lines 112-124: response.json() resolves (or throws): generatedSlides is
\* set when response.ok && result.success, and the failure is reported
\* otherwise; the finally block resets isLoading.
GenerateParsed ==
    /\ \/ /\ At("generate", "json")
          /\ \E data \in ResultData(ui.selectedRfp) :
                ui' = [ui EXCEPT !.isLoading = FALSE,
                                 !.generatedSlides = data,
                                 !.generation = "succeeded",
                                 !.awaiting = Ended(@, "generate", "json")]
       \/ \E await \in {"json", "jsonNotOk"} :
             /\ At("generate", await)
             /\ ui' = [ui EXCEPT !.isLoading = FALSE,
                                 !.generation = "failed",
                                 !.awaiting = Ended(@, "generate", await)]
    /\ UNCHANGED Server

\* The component on its own: the server's answers are whatever a server may
\* answer.
UiInit ==
    /\ rfpDocuments = <<>>
    /\ brandGuides = <<>>
    /\ slideGenerations = <<>>
    /\ uploads = {}
    /\ userUploads = {}
    /\ presentations = {}
    /\ clock = 0
    /\ pc = [r \in Requests |-> "idle"]
    /\ req = [r \in Requests |-> NoRequest]
    /\ loc = [r \in Requests |-> NoLocals]
    /\ res = [r \in Requests |-> NoResponse]
    /\ ui = Mounted

UiNext ==
    \/ CheckAnswered
    \/ FilesAnswered
    \/ FilesParsed
    \/ SetUploadType
    \/ SetSelectedRfp
    \/ ChooseFile
    \/ HandleFileUpload
    \/ UploadAnswered
    \/ UploadParsed
    \/ HandleGenerateSlides
    \/ GenerateAnswered
    \/ GenerateParsed

UiSpec == UiInit /\ [][UiNext]_vars

(***************************************************************************)
(* The initial state and the specification.                                *)
(***************************************************************************)
\* What the i-th earlier upload of RfpPdf, the i-th earlier upload of GuidePdf
\* as a brand guide and the i-th earlier generation left behind.
PriorRfp(i) == RfpDocument(0, RfpPdf, TextOf(RfpPdf), SavedFilename(0 - i, RfpPdf))

PriorGuide(i) == BrandGuide(0, GuidePdf, TextOf(GuidePdf))

Init ==
    /\ \E n \in 0..MaxPrior : rfpDocuments = [i \in 1..n |-> PriorRfp(i)]
    /\ \E n \in 0..MaxPrior : brandGuides = [i \in 1..n |-> PriorGuide(i)]
    /\ \E n \in 0..(IF rfpDocuments = <<>> THEN 0 ELSE MaxPrior) :
          slideGenerations = [i \in 1..n |-> GenerationRecord(0, RfpPdf, NoName, JArr(<<>>))]
    /\ uploads = {}
    /\ userUploads = {rfpDocuments[i].savedFilename : i \in 1..Len(rfpDocuments)}
                     \cup {SavedFilename(0 - i, GuidePdf) : i \in 1..Len(brandGuides)}
    /\ presentations = {}
    /\ clock = 0
    /\ pc = [r \in Requests |-> "idle"]
    /\ req = [r \in Requests |-> NoRequest]
    /\ loc = [r \in Requests |-> NoLocals]
    /\ res = [r \in Requests |-> NoResponse]
    /\ ui = Mounted

Next ==
    \E r \in Requests :
        \/ GenerateSlides(r)
        \/ RfpFetched(r)
        \/ BrandFetched(r)
        \/ Completed(r)
        \/ Recorded(r)
        \/ Upload(r)
        \/ Extracted(r)
        \/ Stored(r)
        \/ GeneratePptx(r)
        \/ PptxWritten(r)
        \/ PptxOpened(r)
        \/ PptxSent(r)
        \/ ListFiles(r)
        \/ RfpListed(r)
        \/ BrandListed(r)
        \/ SlideHistory(r)
        \/ HistoryListed(r)
        \/ Check(r)

Spec == Init /\ [][Next]_vars

(***************************************************************************)
(* Properties of POST /generate-slides and POST /upload.                   *)
(***************************************************************************)
\* The SlideGeneration records request r wrote.
By(r) == {i \in 1..Len(slideGenerations) : slideGenerations[i].by = r}

Generating(r) == req[r].op = "generate"

Done(r) == pc[r] = "done"

\* Some stored RFPDocument / BrandGuide carries the name.
RfpStored(name) == \E i \in 1..Len(rfpDocuments) : rfpDocuments[i].filename = name

GuideStored(name) == \E i \in 1..Len(brandGuides) : brandGuides[i].filename = name

\* The request failed because a store call threw.
StoreThrew(r) == res[r].status = 500 /\ res[r].details = StoreError

\* The text cannot be parsed: the matched region is not valid JSON, or there
\* is no region and the whole text is not valid JSON.
UnparseableText(text) ==
    IF JsonMatch(text).found THEN ~JSONParse(JsonMatch(text).text).ok
    ELSE ~JSONParse(text).ok

\* The same, tabulated once for the completions the model can return.
UnparseableOutputs == [t \in RawOutputs |-> UnparseableText(t)]

Unparseable(text) ==
    IF text \in RawOutputs THEN UnparseableOutputs[text] ELSE UnparseableText(text)

\* The value the parse step obtains from a parseable text.
ParsedText(text) ==
    IF JsonMatch(text).found THEN JSONParse(JsonMatch(text).text).val
    ELSE JSONParse(text).val

\* The same, tabulated once for the completions the model can return.
ParsedOutputs == [t \in RawOutputs |-> ParsedText(t)]

Parsed(text) ==
    IF text \in RawOutputs THEN ParsedOutputs[text] ELSE ParsedText(text)

\* Request r received a completion text that parses to an array.
ParsedArray(r) ==
    /\ loc[r].completion = "text"
    /\ ~Unparseable(loc[r].responseText)
    /\ Parsed(loc[r].responseText).t = "arr"

\* C1: a generate request whose rfpFilename matches no stored RFPDocument
\* writes no SlideGeneration record, whatever other requests do meanwhile, and
\* once its lookup has been answered it has ended with 404.
C1_NotFoundWritesNothing ==
    \A r \in Requests :
        (Generating(r) /\ Truthy(req[r].rfpFilename) /\ ~RfpStored(req[r].rfpFilename))
            => /\ By(r) = {}
               /\ pc[r] \in {"fetchRfp", "done"}
               /\ (Done(r) /\ ~StoreThrew(r)
                      => /\ res[r].status = 404
                         /\ res[r].success = "false"
                         /\ res[r].data = NoData)

\* A 404 for one request while an upload is under way in the other.
C1_Witness ==
    \E r, q \in Requests :
        /\ Generating(r) /\ Done(r) /\ res[r].status = 404
        /\ ~RfpStored(req[r].rfpFilename)
        /\ req[q].op = "upload" /\ pc[q] \in {"store", "done"}
        /\ Len(rfpDocuments) + Len(brandGuides) + Len(slideGenerations) > 0

\* C2: when the model's output cannot be parsed, the request ends with the
\* 500 "Failed to generate valid slide structure" and writes no record.
C2_UnparseableFails ==
    \A r \in Requests :
        (Generating(r) /\ loc[r].completion # "none"
            /\ (loc[r].completion = "null" \/ Unparseable(loc[r].responseText)))
            => /\ Done(r)
               /\ res[r].status = 500
               /\ res[r].success = "false"
               /\ res[r].error = "Failed to generate valid slide structure"
               /\ res[r].data = NoData
               /\ By(r) = {}

\* Plain prose (no region) and a bracketed region that is not JSON, both
\* answered with the parse error.
C2_Witness ==
    \E r, q \in Requests :
        /\ r # q /\ Done(r) /\ Done(q)
        /\ loc[r].completion = "text" /\ loc[q].completion = "text"
        /\ ~JsonMatch(loc[r].responseText).found /\ Unparseable(loc[r].responseText)
        /\ JsonMatch(loc[q].responseText).found /\ Unparseable(loc[q].responseText)
        /\ res[r].status = 500 /\ res[q].status = 500

\* C3, as claimed: when the parsed value is not an array the request returns
\* an error, returns no slides and writes no record.
C3_NonArrayFails ==
    \A r \in Requests :
        (Generating(r) /\ loc[r].completion = "text"
            /\ ~Unparseable(loc[r].responseText)
            /\ Parsed(loc[r].responseText).t # "arr")
            => /\ By(r) = {}
               /\ pc[r] = "done"
               /\ res[r].status = 500
               /\ res[r].data.slides = JUndefined

\* C4: a generate request ends either with the slides returned and exactly
\* one record of them written, or with an error, no slides and no record;
\* before it ends it has written nothing.
C4_AllOrNothing ==
    \A r \in Requests :
        Generating(r) =>
            IF Done(r) /\ res[r].status = 200
            THEN /\ res[r].success = "true"
                 /\ res[r].data.slides # JUndefined
                 /\ Cardinality(By(r)) = 1
                 /\ \A i \in By(r) :
                        /\ slideGenerations[i].slides = JSONStringify(res[r].data.slides)
                        /\ slideGenerations[i].rfpFilename = res[r].data.rfpFilename
            ELSE /\ By(r) = {}
                 /\ Done(r) => /\ res[r].status \in {400, 404, 500}
                               /\ res[r].success = "false"
                               /\ res[r].error # ""
                               /\ res[r].data = NoData

\* One request succeeded and the other failed at the store write.
C4_Witness ==
    \E r, q \in Requests :
        /\ Generating(r) /\ Done(r) /\ res[r].status = 200 /\ By(r) # {}
        /\ Generating(q) /\ Done(q) /\ ParsedArray(q) /\ StoreThrew(q)

\* The slides of request r were parsed and its record was not persisted.
RecordLost(r) ==
    /\ Generating(r) /\ Done(r)
    /\ loc[r].completion = "text"
    /\ ~Unparseable(loc[r].responseText)
    /\ Parsed(loc[r].responseText).t # "null"
    /\ By(r) = {}

\* C5, as claimed: when persisting the record fails after the slides were
\* parsed, the caller still receives the success response with the slides.
C5_FireAndForget ==
    \A r \in Requests :
        RecordLost(r) => /\ res[r].status = 200
                         /\ res[r].data.slides = Parsed(loc[r].responseText)

\* C5, amended: the write is awaited, and its failure replaces the slide
\* response by the 500 "Failed to generate slides" with the store's message.
C5_WriteFailureFailsRequest ==
    \A r \in Requests :
        RecordLost(r) => /\ res[r].status = 500
                         /\ res[r].success = "false"
                         /\ res[r].error = "Failed to generate slides"
                         /\ res[r].details = StoreError
                         /\ res[r].data = NoData

C5_Witness == \E r \in Requests : RecordLost(r) /\ ParsedArray(r)

\* C6: in a successful generation the returned slideCount is the length of
\* the returned slides array, and the slideCount of every stored record is
\* the number of slides its slides text holds, whatever count was requested.
C6_CountIsLength ==
    /\ \A r \in Requests :
           (Generating(r) /\ Done(r) /\ res[r].status = 200 /\ res[r].data.slides.t = "arr")
               => res[r].data.slideCount = JNum(Len(res[r].data.slides.v))
    /\ \A i \in 1..Len(slideGenerations) :
           LET stored == JSONParse(slideGenerations[i].slides) IN
           /\ stored.ok
           /\ stored.val.t = "arr" => slideGenerations[i].slideCount = JNum(Len(stored.val.v))

\* Two slides returned and recorded where five were requested, and one slide
\* where two were requested.
C6_Witness ==
    \E r, q \in Requests :
        /\ Done(r) /\ res[r].status = 200 /\ req[r].slideCount = JNum(DefaultSlideCount)
        /\ res[r].data.slides.t = "arr" /\ Len(res[r].data.slides.v) = 2
        /\ Done(q) /\ res[q].status = 200 /\ req[q].slideCount = JNum(2)
        /\ res[q].data.slides.t = "arr" /\ Len(res[q].data.slides.v) = 1
        /\ By(r) # {} /\ By(q) # {}

\* C7: two generate requests for the same rfpFilename that both succeed leave
\* two records, each holding its own request's slides.
C7_TwoRecords ==
    \A r, q \in Requests :
        (r # q /\ Generating(r) /\ Generating(q)
            /\ Done(r) /\ Done(q) /\ res[r].status = 200 /\ res[q].status = 200
            /\ req[r].rfpFilename = req[q].rfpFilename)
            => /\ Cardinality(By(r) \cup By(q)) = 2
               /\ By(r) \cap By(q) = {}
               /\ \A i \in By(r) :
                      slideGenerations[i].slides = JSONStringify(res[r].data.slides)
               /\ \A i \in By(q) :
                      slideGenerations[i].slides = JSONStringify(res[q].data.slides)

\* Both succeeded with different slides, and the request that arrived second
\* wrote its record first: they overlapped.
C7_Witness ==
    /\ Generating(1) /\ Generating(2) /\ Done(1) /\ Done(2)
    /\ res[1].status = 200 /\ res[2].status = 200
    /\ req[1].rfpFilename = req[2].rfpFilename
    /\ res[1].data.slides # res[2].data.slides
    /\ \E i \in By(2), j \in By(1) : i < j

\* Request r named a brand guide and found its RFP document, and no guide is
\* stored under that name, or none was when the request looked it up.
GuideMissing(r) ==
    /\ Generating(r)
    /\ Truthy(req[r].brandGuideFilename)
    /\ loc[r].rfpDoc # NoDoc
    /\ (~GuideStored(req[r].brandGuideFilename) \/ loc[r].brandGuidelines = UndefinedGuide)

\* C8: a brand guide name that matches nothing does not reject the request:
\* no 404, the prompt carries the default styling clause and no brand field,
\* and with a completion that parses to an array (and a store that answers)
\* the request succeeds.
C8_MissingGuideIsLenient ==
    \A r \in Requests :
        GuideMissing(r)
            => /\ loc[r].brandGuidelines \in {NullGuide, UndefinedGuide}
               /\ pc[r] \in {"complete", "record"}
                      => /\ loc[r].brandGuidelines = UndefinedGuide
                         /\ loc[r].prompt # NoPrompt
               /\ loc[r].prompt # NoPrompt
                      => /\ loc[r].prompt.brand.clause = "Use professional corporate styling."
                         /\ loc[r].prompt.brand.brand = NoName
               /\ Done(r) => res[r].status \in {200, 500}
               /\ (Done(r) /\ ParsedArray(r) /\ ~StoreThrew(r)) => res[r].status = 200

C8_Witness ==
    \E r \in Requests :
        /\ GuideMissing(r) /\ Done(r) /\ res[r].status = 200
        /\ ~GuideStored(req[r].brandGuideFilename)
        /\ res[r].data.brandGuideFilename = GuidePdf
        /\ loc[r].prompt.brand.clause = "Use professional corporate styling."

\* C9, as claimed: every request that ends in an error ends with a JSON body
\* carrying success:false, whichever collaborator failed (the upload filter
\* and the deck renderer included), and no request is left without a response.
C9_EveryErrorIsEnveloped ==
    \A r \in Requests :
        /\ pc[r] # "hung"
        /\ (Done(r) /\ res[r].status >= 400)
               => res[r].kind = "json" /\ res[r].success = "false"

\* C10, as claimed: an upload whose file is neither of mimetype
\* application/pdf nor named *.pdf is answered with status 400 and stores
\* nothing.
C10_RejectedUploadIs400 ==
    \A r \in Requests :
        (req[r].op = "upload" /\ req[r].file.present
            /\ req[r].file.mimetype # "application/pdf"
            /\ req[r].file.originalname.ext \notin {".pdf", ".PDF"})
            => /\ Done(r)
               /\ res[r].status = 400
               /\ ~RfpStored(req[r].file.originalname)
               /\ ~GuideStored(req[r].file.originalname)

(***************************************************************************)
(* Properties of POST /upload.                                             *)
(***************************************************************************)
Uploading(r) == req[r].op = "upload" /\ req[r].file.present

\* C11: once an upload that received a file has been answered, on any of its
\* exit paths, its staged copy in uploads/ is gone; staged copies belong to
\* requests whose extraction is still under way.
C11_StagedCopyRemoved ==
    /\ \A r \in Requests : (Uploading(r) /\ Done(r)) => req[r].id \notin uploads
    /\ \A id \in uploads : \E r \in Requests : req[r].id = id /\ pc[r] = "extract"

\* One upload left through the catch block with its staged copy still in
\* place (extraction failed), the other after the copy failed.
C11_Witness ==
    \E r, q \in Requests :
        /\ Uploading(r) /\ Done(r) /\ res[r].error = ExtractError
        /\ Uploading(q) /\ Done(q) /\ res[q].error = CopyError

\* The RFPDocument and BrandGuide records request r stored.
StoredBy(r) ==
    {i \in 1..Len(rfpDocuments) : rfpDocuments[i].by = r}
        \cup {0 - i : i \in {j \in 1..Len(brandGuides) : brandGuides[j].by = r}}

\* The extraction of upload r failed.
ExtractionFailed(r) == Uploading(r) /\ Done(r) /\ res[r].error = ExtractError

\* C12: an upload whose text extraction fails stores no RFPDocument and no
\* BrandGuide, and its caller receives an error.
C12_ExtractionFailureStoresNothing ==
    \A r \in Requests :
        ExtractionFailed(r)
            => /\ StoredBy(r) = {}
               /\ res[r].status = 400
               /\ res[r].success = "false"
               /\ res[r].data = NoData

\* The extraction of one upload failed while the other upload stored its
\* document.
C12_Witness ==
    \E r, q \in Requests :
        /\ ExtractionFailed(r)
        /\ Uploading(q) /\ Done(q) /\ res[q].status = 200 /\ StoredBy(q) # {}
        /\ req[q].file = req[r].file

(***************************************************************************)
(* Properties of the store.                                                *)
(***************************************************************************)
\* Every record of s is still there in t, unchanged and at its place.
IsPrefix(s, t) == Len(s) <= Len(t) /\ SubSeq(t, 1, Len(s)) = s

\* Request r ends in this step with the success response of a generation.
GenerateSucceeds(r) ==
    /\ req[r].op = "generate" /\ pc[r] # "done"
    /\ pc'[r] = "done" /\ res'[r].status = 200

\* C13: whatever the routes do, every stored record stays as it is; records
\* are only added, and the SlideGeneration collection grows exactly when a
\* generation succeeds, by that generation's one record.
C13_AppendOnly ==
    [][/\ IsPrefix(rfpDocuments, rfpDocuments')
       /\ IsPrefix(brandGuides, brandGuides')
       /\ IsPrefix(slideGenerations, slideGenerations')
       /\ \A r \in Requests :
              GenerateSucceeds(r)
                  => /\ Len(slideGenerations') = Len(slideGenerations) + 1
                     /\ slideGenerations'[Len(slideGenerations')].by = r
       /\ (\A r \in Requests : ~GenerateSucceeds(r))
              => slideGenerations' = slideGenerations]_vars

\* Earlier records are in the store, an upload of the name of one of them has
\* added its document, a generation has added its record, and a listing and
\* a render have run.
C13_Witness ==
    \E r, q \in Requests :
        /\ Uploading(r) /\ Done(r) /\ res[r].status = 200
        /\ \E i, j \in 1..Len(rfpDocuments) :
               /\ i < j /\ rfpDocuments[i].by = 0 /\ rfpDocuments[j].by = r
               /\ rfpDocuments[i].filename = rfpDocuments[j].filename
        /\ req[q].op \in {"generate", "files", "history", "pptx"}
        /\ Done(q)
        /\ (req[q].op = "generate" =>
               \E i, j \in 1..Len(slideGenerations) :
                   i < j /\ slideGenerations[i].by = 0 /\ slideGenerations[j].by = q)

(***************************************************************************)
(* The parse step on its own (lines 311-316): a specification that feeds   *)
(* it wrapped and unwrapped array texts.                                   *)
(***************************************************************************)
\* The longest prefix and suffix put around an array text.
MaxWrap == 2

\* The characters the wrapping is made of: the four brackets and prose.
WrapChars == {"[", "{", "}", "]", "x"}

RECURSIVE TextsUpTo(_)
\* The texts of at most n characters of WrapChars.
TextsUpTo(n) ==
    IF n = 0 THEN {<<>>}
    ELSE LET shorter == TextsUpTo(n - 1)
         IN shorter \cup {Append(t, c) : t \in shorter, c \in WrapChars}

\* What the model puts around its JSON: stray characters, an introduction, a
\* markdown fence (its backquote written ~), a remark in brackets.
Wraps ==
    TextsUpTo(MaxWrap)
        \cup { <<"I", "n", "t", "r", "o", " ", "t", "e", "x", "t", "\n">>,
               <<"\n", "T", "r", "a", "i", "l", "i", "n", "g">>,
               <<"~", "~", "~", "j", "s", "o", "n", "\n">>,
               <<"\n", "~", "~", "~">>,
               <<" ", "{", "x", "}", " ", "]">> }

\* Texts of arrays of objects.
ObjectArrayTexts ==
    { <<"[", "{", "}", "]">>,
      <<"[">> \o SlideText(1) \o <<",", " ">> \o SlideText(2) \o <<"]">>,
      <<"[", " ", "{", "\"", "a", "\"", ":", "[", "{", "}", "]", "}", "\n", "]">> }

\* Texts of other arrays: empty, of non-objects, with nested arrays of
\* objects.
PlainArrayTexts ==
    { <<"[", "]">>,
      <<"[", "1", ",", "2", "]">>,
      <<"[", "\"", "a", "\"", "]">>,
      <<"[", "1", ",", "[", "{", "}", "]", "]">>,
      <<"[", "[", "{", "}", "]", ",", "[", "{", "}", "]", "]">>,
      <<"[", "{", "}", ",", "1", "]">> }

\* The raw texts the parse step is given.
RawTexts ==
    {p \o a \o s : p \in Wraps, a \in ObjectArrayTexts, s \in Wraps}
        \cup PlainArrayTexts

ParserInit ==
    /\ rfpDocuments = <<>>
    /\ brandGuides = <<>>
    /\ slideGenerations = <<>>
    /\ uploads = {}
    /\ userUploads = {}
    /\ presentations = {}
    /\ clock = 0
    /\ pc = [r \in Requests |-> "idle"]
    /\ req = [r \in Requests |-> NoRequest]
    /\ loc = [r \in Requests |-> NoLocals]
    /\ res = [r \in Requests |-> NoResponse]
    /\ ui = Mounted

\* Lines 311-316 applied to a raw text: slides is assigned when the parse
\* succeeds, and the inner catch is taken when it throws.
ParseRawText ==
    /\ pc[1] = "idle"
    /\ \E rawText \in RawTexts :
          LET parsed == ParseSlides(rawText) IN
          /\ loc' = [loc EXCEPT ![1].completion = "text",
                                ![1].responseText = rawText,
                                ![1].slides = IF parsed.ok THEN parsed.val
                                              ELSE JArr(<<>>)]
          /\ pc' = [pc EXCEPT ![1] = IF parsed.ok THEN "parsed" ELSE "unparsed"]
    /\ UNCHANGED <<store, disk, req, res, ui>>

ParserNext == ParseRawText

ParserSpec == ParserInit /\ [][ParserNext]_vars


\* The raw text has gone through the parse step.
ParseTried == pc[1] \in {"parsed", "unparsed"}

\* text[i..j] is the text of a non-empty JSON array of objects.
IsObjectArrayAt(text, i, j) ==
    /\ i < j /\ text[i] = "[" /\ text[j] = "]"
    /\ LET a == JSONParse(SubSeq(text, i, j))
       IN /\ a.ok /\ a.val.t = "arr" /\ a.val.v # <<>>
          /\ \A e \in 1..Len(a.val.v) : a.val.v[e].t = "obj"

\* The parse step extracted text[i..j] and returned what it parses to.
ExtractsExactly(text, i, j) ==
    /\ pc[1] = "parsed"
    /\ JsonMatch(text).found
    /\ JsonMatch(text).text = SubSeq(text, i, j)
    /\ loc[1].slides = JSONParse(SubSeq(text, i, j)).val

\* C14, as claimed: whatever text surrounds the text of an array of objects,
\* the parse step extracts that array's text alone and returns the array.
C14_AnyWrapping ==
    ParseTried =>
        LET text == loc[1].responseText IN
        \A i, j \in 1..Len(text) :
            IsObjectArrayAt(text, i, j) => ExtractsExactly(text, i, j)

\* The text before text[i..j] holds no "[" followed by white space and "{",
\* and the text after it no "}" followed by white space and "]".
CleanWrapping(text, i, j) ==
    /\ \A k \in 1..(i - 1) : ~OpensAt(text, k)
    /\ \A k \in (j + 1)..Len(text) : ~ClosesAt(text, k)

\* C14, amended: the array's text is extracted alone, and the array is
\* returned, when the surrounding text opens and closes no bracketed region
\* of its own.
C14_CleanWrapping ==
    ParseTried =>
        LET text == loc[1].responseText IN
        \A i, j \in 1..Len(text) :
            (IsObjectArrayAt(text, i, j) /\ CleanWrapping(text, i, j))
                => ExtractsExactly(text, i, j)

\* Two slides between an introduction and a markdown fence's end.
C14_Witness ==
    /\ pc[1] = "parsed"
    /\ LET text == loc[1].responseText IN
       /\ text[1] = "I" /\ text[Len(text)] = "~"
       /\ \E i, j \in 2..(Len(text) - 1) :
              /\ IsObjectArrayAt(text, i, j) /\ CleanWrapping(text, i, j)
              /\ Len(loc[1].slides.v) = 2


\* The raw text is, as a whole and with nothing around it, the text of a
\* JSON array.
IsPureArray(text) ==
    /\ text # <<>> /\ text[1] = "[" /\ text[Len(text)] = "]"
    /\ JSONParse(text).ok
    /\ JSONParse(text).val.t = "arr"

\* C15, as claimed: a raw text that is a JSON array as a whole is parsed to
\* exactly that array, whatever its elements are.
C15_PureArrayUnchanged ==
    (ParseTried /\ IsPureArray(loc[1].responseText))
        => /\ pc[1] = "parsed"
           /\ loc[1].slides = JSONParse(loc[1].responseText).val

(***************************************************************************)
(* Further properties of POST /generate-slides.                            *)
(***************************************************************************)
\* Request r is a generation that ended with the success response.
Generated(r) == Generating(r) /\ Done(r) /\ res[r].status = 200

\* C16: the success response names the brand guide the request named, and
\* "Default" when the request named none.
C16_ResponseBrandGuide ==
    \A r \in Requests :
        Generated(r)
            => res[r].data.brandGuideFilename =
                   IF Truthy(req[r].brandGuideFilename) THEN req[r].brandGuideFilename
                   ELSE FileName("Default", "")

\* One generation named a guide and the other none.
C16_Witness ==
    \E r, q \in Requests :
        /\ Generated(r) /\ req[r].brandGuideFilename = GuidePdf
        /\ res[r].data.brandGuideFilename = GuidePdf
        /\ Generated(q) /\ req[q].brandGuideFilename = NoName
        /\ res[q].data.brandGuideFilename = FileName("Default", "")

(***************************************************************************)
(* Properties of POST /generate-pptx.                                      *)
(***************************************************************************)
\* C17, as claimed: the first slide of every rendered deck carries the
\* CONFIDENTIAL disclaimer, whatever its layout.
C17_FirstSlideConfidential ==
    \A r \in Requests :
        (req[r].op = "pptx" /\ loc[r].deck # <<>>) => loc[r].deck[1].confidential


\* The slideNumber values of the slides of an array, in order.
SlideNumbers(slides) == [i \in 1..Len(slides.v) |-> Member(slides.v[i], SlideNumberName)]

\* The slideNumber values are exactly 1..N, N the number of slides.
Dense(slides) ==
    {SlideNumbers(slides)[i] : i \in 1..Len(slides.v)} = {JNum(k) : k \in 1..Len(slides.v)}

\* C18, as claimed: the slides of every successful generation, as returned
\* and as recorded, are numbered 1..N with N the slideCount.
C18_DenseNumbers ==
    \A r \in Requests :
        (Generated(r) /\ res[r].data.slides.t = "arr")
            => /\ Dense(res[r].data.slides)
               /\ res[r].data.slideCount = JNum(Len(res[r].data.slides.v))
               /\ \A i \in By(r) : Dense(JSONParse(slideGenerations[i].slides).val)

\* C18, amended: the slides returned and recorded carry the slideNumber
\* values of the model's output, one for one and in its order, and slideCount
\* is their number; nothing makes them 1..N.
C18_NumbersAsGenerated ==
    \A r \in Requests :
        (Generated(r) /\ res[r].data.slides.t = "arr")
            => LET output == Parsed(loc[r].responseText) IN
               /\ SlideNumbers(res[r].data.slides) = SlideNumbers(output)
               /\ res[r].data.slideCount = JNum(Len(output.v))
               /\ \A i \in By(r) :
                      /\ SlideNumbers(JSONParse(slideGenerations[i].slides).val)
                             = SlideNumbers(output)
                      /\ slideGenerations[i].slideCount = JNum(Len(output.v))

\* One generation returned slides numbered 1, 2 and the other a single slide
\* numbered 2.
C18_Witness ==
    \E r, q \in Requests :
        /\ Generated(r) /\ res[r].data.slides.t = "arr"
        /\ SlideNumbers(res[r].data.slides) = <<JNum(1), JNum(2)>>
        /\ Generated(q) /\ res[q].data.slides.t = "arr"
        /\ SlideNumbers(res[q].data.slides) = <<JNum(2)>>
        /\ ~Dense(res[q].data.slides)


\* The one call request r made of the model failed: the call was made, it
\* is no longer awaited, and no completion came back.
ModelCallFailed(r) ==
    Generating(r) /\ loc[r].calls > 0 /\ pc[r] # "complete" /\ loc[r].completion = "none"

\* C19: a generate request calls the model at most once, and when that call
\* fails it ends with the 500 "Failed to generate slides" without another
\* call and without a record.
C19_OneModelCall ==
    \A r \in Requests :
        /\ loc[r].calls <= 1
        /\ ModelCallFailed(r)
               => /\ Done(r)
                  /\ res[r].status = 500
                  /\ res[r].success = "false"
                  /\ res[r].error = "Failed to generate slides"
                  /\ res[r].details = ModelError
                  /\ res[r].data = NoData
                  /\ loc[r].calls = 1
                  /\ By(r) = {}

\* The model call of one request failed and that of the other succeeded.
C19_Witness ==
    \E r, q \in Requests :
        /\ ModelCallFailed(r) /\ Done(r)
        /\ Generated(q) /\ loc[q].calls = 1 /\ By(q) # {}


\* How far the handler of a generation has come: the RFP fetch is awaited,
\* then the brand guide fetch, then the model call, then the record write.
Stage(at) ==
    CASE at = "idle" -> 0
      [] at = "fetchRfp" -> 1
      [] at = "fetchBrand" -> 2
      [] at = "complete" -> 3
      [] at = "record" -> 4
      [] OTHER -> 5

\* What a step of the generation r may do, given where it stands.
InOrder(r) ==
    /\ Stage(pc'[r]) > Stage(pc[r])
    \* the brand guide is fetched after the RFP document came back, if named
    /\ pc'[r] = "fetchBrand"
           => /\ pc[r] = "fetchRfp" /\ loc'[r].rfpDoc # NoDoc
              /\ Truthy(req'[r].brandGuideFilename)
    \* the model is called after the fetches returned
    /\ pc'[r] = "complete"
           => /\ loc'[r].rfpDoc # NoDoc
              /\ loc'[r].rfpDoc.filename = req'[r].rfpFilename
              /\ pc[r] = (IF Truthy(req'[r].brandGuideFilename) THEN "fetchBrand"
                          ELSE "fetchRfp")
    \* the record is written after the completion was parsed
    /\ pc'[r] = "record"
           => /\ pc[r] = "complete"
              /\ loc'[r].completion = "text"
              /\ ~Unparseable(loc'[r].responseText)
              /\ loc'[r].slides = Parsed(loc'[r].responseText)
    \* the success response is sent after the record was written
    /\ (pc'[r] = "done" /\ res'[r].status = 200)
           => /\ pc[r] = "record"
              /\ \E i \in 1..Len(slideGenerations') : slideGenerations'[i].by = r
    \* and the record is written by no other step
    /\ (\E i \in 1..Len(slideGenerations') : slideGenerations'[i].by = r)
           => pc[r] = "record"

\* C20: the handler of a generation goes through RFP fetch, brand guide
\* fetch (when a guide is named), model call, record write and response in
\* that order, each step starting after the one before it has returned.
C20_StepsInOrder ==
    [][\A r \in Requests :
           (req'[r].op = "generate" /\ pc'[r] # pc[r]) => InOrder(r)]_vars

\* A generation that named a stored brand guide has gone through all five
\* steps.
C20_Witness ==
    \E r \in Requests :
        /\ Generated(r) /\ By(r) # {} /\ loc[r].calls = 1
        /\ req[r].brandGuideFilename = GuidePdf
        /\ loc[r].brandGuidelines.filename = GuidePdf
        /\ loc[r].rfpDoc.filename = req[r].rfpFilename

(***************************************************************************)
(* The region the parse step takes from the raw text.                      *)
(***************************************************************************)
\* The first "[" of the text that some "{" follows.
FirstOpening(text) ==
    {i \in 1..Len(text) :
        /\ text[i] = "[" /\ \E j \in (i + 1)..Len(text) : text[j] = "{"
        /\ \A h \in 1..(i - 1) :
               ~(text[h] = "[" /\ \E j \in (h + 1)..Len(text) : text[j] = "{")}

\* The last "]" of the text.
LastClosing(text) ==
    {m \in 1..Len(text) :
        text[m] = "]" /\ \A h \in (m + 1)..Len(text) : text[h] # "]"}

\* The regions from the first "[" that a "{" follows through the last "]":
\* one region, or none.
BracketRegions(text) ==
    {SubSeq(text, e[1], e[2]) :
        e \in {e \in FirstOpening(text) \X LastClosing(text) : e[1] < e[2]}}

\* C21, as claimed: the parse step parses the region from the first "[" that
\* a "{" follows through the last "]" of the raw text, and nothing else, when
\* there is such a region, and the whole raw text when there is none.
C21_RegionFirstToLast ==
    ParseTried =>
        LET text == loc[1].responseText
            parsed(t) == /\ (pc[1] = "parsed") = JSONParse(t).ok
                         /\ pc[1] = "parsed" => loc[1].slides = JSONParse(t).val
        IN IF BracketRegions(text) # {}
           THEN \A region \in BracketRegions(text) : parsed(region)
           ELSE parsed(text)

\* C22: a successful generation passes the parsed array on as it is: the
\* slides of the response, and the slides read back from the record's text,
\* are the parsed array, element for element and in its order.
C22_SlidesVerbatim ==
    \A r \in Requests :
        (Generated(r) /\ Parsed(loc[r].responseText).t = "arr")
            => LET output == Parsed(loc[r].responseText) IN
               /\ res[r].data.slides = output
               /\ By(r) # {}
               /\ \A i \in By(r) :
                      /\ JSONParse(slideGenerations[i].slides).ok
                      /\ JSONParse(slideGenerations[i].slides).val = output

\* Two slides taken out of the surrounding prose, returned and recorded.
C22_Witness ==
    \E r \in Requests :
        /\ Generated(r) /\ By(r) # {}
        /\ loc[r].responseText[1] = "O"
        /\ Parsed(loc[r].responseText).t = "arr"
        /\ Len(res[r].data.slides.v) = 2
        /\ res[r].data.slides.v[1] # res[r].data.slides.v[2]

(***************************************************************************)
(* Further properties of POST /upload.                                     *)
(***************************************************************************)
\* The local files request r created that are still there: its staged file
\* in uploads/ and its copy in user-uploads/.
LocalFilesOf(r) ==
    {f \in uploads : f = req[r].id}
        \cup {f \in userUploads : f = loc[r].savedFilename}

\* C23, as claimed: once an upload has completed, with or without success,
\* no local file it created is left, neither the staged file nor the copy.
C23_NoLocalFileLeft ==
    \A r \in Requests : (Uploading(r) /\ Done(r)) => LocalFilesOf(r) = {}

\* The upload r ended with the success response.
Uploaded(r) == Uploading(r) /\ Done(r) /\ res[r].status = 200

\* The RFPDocument and BrandGuide records request r wrote.
RfpDocumentsBy(r) == {i \in 1..Len(rfpDocuments) : rfpDocuments[i].by = r}

BrandGuidesBy(r) == {i \in 1..Len(brandGuides) : brandGuides[i].by = r}

\* C24: a successful upload has written exactly one record: a BrandGuide
\* when documentType is "brand-guide" and an RFPDocument when it is "rfp",
\* holding the extracted text under the original filename; an upload that has
\* not been answered with success has written none.
C24_OneRecordByDocumentType ==
    \A r \in Requests :
        Uploading(r) =>
            IF Uploaded(r)
            THEN /\ res[r].success = "true"
                 /\ req[r].documentType = "brand-guide"
                        => /\ RfpDocumentsBy(r) = {}
                           /\ Cardinality(BrandGuidesBy(r)) = 1
                           /\ \A i \in BrandGuidesBy(r) :
                                  /\ brandGuides[i].content = TextOf(req[r].file.originalname)
                                  /\ brandGuides[i].filename = req[r].file.originalname
                 /\ req[r].documentType = "rfp"
                        => /\ BrandGuidesBy(r) = {}
                           /\ Cardinality(RfpDocumentsBy(r)) = 1
                           /\ \A i \in RfpDocumentsBy(r) :
                                  /\ rfpDocuments[i].content = TextOf(req[r].file.originalname)
                                  /\ rfpDocuments[i].filename = req[r].file.originalname
                 /\ req[r].documentType \in DocumentTypes
            ELSE RfpDocumentsBy(r) = {} /\ BrandGuidesBy(r) = {}

\* A brand guide and an RFP document both uploaded with success.
C24_Witness ==
    \E r, q \in Requests :
        /\ Uploaded(r) /\ req[r].documentType = "brand-guide" /\ BrandGuidesBy(r) # {}
        /\ Uploaded(q) /\ req[q].documentType = "rfp" /\ RfpDocumentsBy(q) # {}

(***************************************************************************)
(* The brand guide name of a generation, as recorded and as returned.      *)
(***************************************************************************)
\* C25, as claimed: the record of a successful generation and its response
\* carry the same brandGuideFilename, the requested name or one sentinel.
C25_SameBrandGuideFilename ==
    \A r \in Requests :
        Generated(r)
            => \A i \in By(r) :
                   slideGenerations[i].brandGuideFilename
                       = res[r].data.brandGuideFilename

(***************************************************************************)
(* Properties of the page's component.                                     *)
(***************************************************************************)
\* The upload and generate requests of the component that are under way.
Requesting == InFlight("upload") + InFlight("generate")

MaxItems == 4

\* What a content array holds.
ColumnItems == {Item("a"), Item("b"), JNum(1)}

RECURSIVE ItemsUpTo(_)
\* The sequences of at most n items.
ItemsUpTo(n) ==
    IF n = 0 THEN {<<>>}
    ELSE LET shorter == ItemsUpTo(n - 1)
         IN shorter \cup {Append(items, item) : items \in shorter, item \in ColumnItems}

\* The contents of the slide: arrays, and single values.
TwoColumnContents ==
    {JArr(items) : items \in ItemsUpTo(MaxItems)}
        \cup {Item("d"), JNum(7), JObj(<<JPair(TitleName, Item("e"))>>)}

\* No request has arrived and nothing is stored.
RendererInit == UiInit

\* Lines 417-689 applied to a deck of one twoColumn slide.
RenderTwoColumn ==
    /\ pc[1] = "idle"
    /\ \E content \in TwoColumnContents :
          LET slides == JArr(<<SlideData(1, TwoColumnName, <<"T">>, content)>>) IN
          /\ req' = [req EXCEPT ![1] =
                 [NoRequest EXCEPT !.id = 1, !.op = "pptx", !.slides = slides]]
          /\ loc' = [loc EXCEPT ![1].deck = RenderDeck(slides)]
          /\ Await(1, "write")
    /\ UNCHANGED <<store, disk>>

RendererNext == RenderTwoColumn

RendererSpec == RendererInit /\ [][RendererNext]_vars

\* The twoColumn slide has been rendered.
Rendered == req[1].op = "pptx" /\ pc[1] = "write"

\* C27: the left column of a twoColumn slide followed by its right column is
\* the content array, item for item, and the left column holds as many items
\* as the right one or one more; a content that is no array is the one item
\* of the left column and the right column is empty.
C27_TwoColumnSplit ==
    Rendered =>
        \A k \in 1..Len(req[1].slides.v) :
            LET content == Member(req[1].slides.v[k], ContentName)
                left == loc[1].deck[k].left
                right == loc[1].deck[k].right
            IN /\ loc[1].deck[k].layout = "twoColumn"
               /\ IF content.t = "arr"
                  THEN /\ left \o right = content.v
                       /\ Len(left) - Len(right) \in {0, 1}
                  ELSE left = <<content>> /\ right = <<>>

\* Three items: two on the left, one on the right.
C27_Witness ==
    /\ Rendered
    /\ Member(req[1].slides.v[1], ContentName) = JArr(<<Item("a"), JNum(1), Item("b")>>)
    /\ loc[1].deck[1].left = <<Item("a"), JNum(1)>>
    /\ loc[1].deck[1].right = <<Item("b")>>

====
